---------------------------- MODULE Spec2Model ----------------------------
(***************************************************************************)
(* Model of the K-map simplification engine (src/js/simplifier.js,         *)
(* class KMapSimplifier): one simplify(kmap) call, followed through the    *)
(* Quine-McCluskey merge passes, the essential/greedy cover selection and  *)
(* the rendering of the SOP and POS strings.                               *)
(*                                                                         *)
(* JavaScript strings are modelled as sequences of one-character strings,  *)
(* JavaScript arrays as sequences, null as the empty sequence.  Implicant  *)
(* objects are records; the code compares them by reference                *)
(* (Array.includes), the model by value: within one call two distinct      *)
(* objects with equal fields are only created from a repeated input index  *)
(* and then behave alike in every test the code makes.                     *)
(***************************************************************************)
EXTENDS Integers, Sequences, FiniteSets, TLC

VARIABLES
    kmap,             \* the argument of simplify: minterms, variables, numVars, dontCares
    pc,               \* position inside the call
    terms,            \* quineMcCluskey: let terms
    primeImplicants,  \* quineMcCluskey: let primeImplicants
    iteration,        \* quineMcCluskey: let iteration
    essentialPIs,     \* findEssentialPrimeImplicants: const essentialPIs
    additionalPIs,    \* findEssentialPrimeImplicants: const additionalPIs
    uncovered,        \* findEssentialPrimeImplicants: const uncovered
    result,           \* the object simplify returns (<<>> until it returns)
    instance,         \* the fields of the KMapSimplifier object (this)
    calls,            \* the simplify calls made on the instance so far
    request,          \* the arguments of a generator call
    truthTable,       \* the object a truth-table generator returns
    error,            \* the message of the Error thrown or shown ("" for none)
    currentData,      \* BooleanLogicApp: this.currentData
    currentMode,      \* BooleanLogicApp: this.currentMode
    truthTableInputData, \* BooleanLogicApp: this.truthTableInputData (<<>> for null)
    multiOutputData,  \* BooleanLogicApp: this.multiOutputData
    download,         \* the data of the last file handed to the browser (<<>> for none)
    generated         \* what the latest successful Generate Results produced

\* what a simplify call does not touch
\* the fields of the application object besides currentData, the download
\* and the record of the latest generation
app == <<currentMode, truthTableInputData, multiOutputData, download, generated>>

others == <<instance, calls, request, truthTable, error, currentData, app>>

vars == <<kmap, pc, terms, primeImplicants, iteration,
          essentialPIs, additionalPIs, uncovered, result, others>>

---------------------------------------------------------------------------
(* Bounds of the model and constants of the program *)

MinVars == 2
MaxVars == 4
MaxIndex == 7
MaxDontCares == 2

VarNames == <<"A", "B", "C", "D", "E", "F", "G">>

---------------------------------------------------------------------------
(* Generic helpers *)

RECURSIVE Pow2(_)
Pow2(k) == IF k = 0 THEN 1 ELSE 2 * Pow2(k - 1)

Min(a, b) == IF a < b THEN a ELSE b

Range(s) == {s[i] : i \in 1..Len(s)}

Includes(s, x) == \E i \in 1..Len(s) : s[i] = x

\* ascending sequence of a finite set of integers
RECURSIVE SortedSeq(_)
SortedSeq(S) ==
    IF S = {} THEN <<>>
    ELSE LET m == CHOOSE x \in S : \A y \in S : x <= y
         IN  <<m>> \o SortedSeq(S \ {m})

\* [...new Set(s)]: first occurrences, in order
RECURSIVE Dedup(_)
Dedup(s) ==
    IF s = <<>> THEN <<>>
    ELSE LET r == Dedup(SubSeq(s, 1, Len(s) - 1))
         IN  IF Includes(r, s[Len(s)]) THEN r ELSE Append(r, s[Len(s)])

\* s.join(sep) for a sequence of strings
RECURSIVE Join(_, _)
Join(s, sep) ==
    IF s = <<>> THEN <<>>
    ELSE IF Len(s) = 1 THEN s[1]
    ELSE s[1] \o sep \o Join(Tail(s), sep)

---------------------------------------------------------------------------
(* Strings of binary digits *)

\* m.toString(2)
RECURSIVE Digits(_)
Digits(m) ==
    IF m < 2 THEN <<IF m = 1 THEN "1" ELSE "0">>
    ELSE Append(Digits(m \div 2), IF m % 2 = 1 THEN "1" ELSE "0")

\* m.toString(2).padStart(n, '0')
ToBinary(m, n) ==
    LET d == Digits(m)
    IN  IF Len(d) >= n THEN d ELSE [i \in 1..(n - Len(d)) |-> "0"] \o d

\* s[i] of a JavaScript string, 1-based here
CharAt(s, i) == IF i <= Len(s) THEN s[i] ELSE "undefined"

Ones(b) == Cardinality({i \in 1..Len(b) : b[i] = "1"})

Dashes(b) == Cardinality({i \in 1..Len(b) : b[i] = "-"})

LiteralCount(b) == Len(b) - Dashes(b)

\* combining only binary strings without a '-'
combineBinaryOnce(bin1, bin2) ==
    LET diffs == {i \in 1..Len(bin1) : bin1[i] # CharAt(bin2, i)}
    IN  IF \E i \in 1..Len(bin1) : bin1[i] = "-" \/ CharAt(bin2, i) = "-" THEN <<>>
        ELSE IF Cardinality(diffs) = 1
             THEN [bin1 EXCEPT ![CHOOSE i \in diffs : TRUE] = "-"]
             ELSE <<>>

\* combining across a position where one string has '-'
combineBinaryAcrossDash(bin1, bin2) ==
    LET diffs == {i \in 1..Len(bin1) : bin1[i] # CharAt(bin2, i)}
    IN  IF Cardinality(diffs) = 1
        THEN [bin1 EXCEPT ![CHOOSE i \in diffs : TRUE] = "-"]
        ELSE <<>>

combineBinary(bin1, bin2) ==
    LET diffs == {i \in 1..Len(bin1) : bin1[i] # CharAt(bin2, i)}
    IN  IF \E i \in diffs : bin1[i] = "-" \/ CharAt(bin2, i) = "-" THEN <<>>
        ELSE IF Cardinality(diffs) = 1
             THEN [bin1 EXCEPT ![CHOOSE i \in diffs : TRUE] = "-"]
             ELSE <<>>

---------------------------------------------------------------------------
(* quineMcCluskey *)

InitialTerms(ms, n) ==
    [i \in 1..Len(ms) |-> [binary |-> ToBinary(ms[i], n), minterms |-> <<ms[i]>>, used |-> FALSE]]

groupByOnes(ts) ==
    LET keys == SortedSeq({Ones(ts[i].binary) : i \in 1..Len(ts)})
    IN  [k \in 1..Len(keys) |-> SelectSeq(ts, LAMBDA t : Ones(t.binary) = keys[k])]

\* the (term1, term2) pairs in the order the nested loops visit them
GroupPairs(g1, g2) ==
    [k \in 1..(Len(g1) * Len(g2)) |->
        <<g1[((k - 1) \div Len(g2)) + 1], g2[((k - 1) % Len(g2)) + 1]>>]

RECURSIVE PairsFrom(_, _)
PairsFrom(groups, i) ==
    IF i >= Len(groups) THEN <<>>
    ELSE GroupPairs(groups[i], groups[i + 1]) \o PairsFrom(groups, i + 1)

\* a combined term that carries the minterms of term1 only
RECURSIVE CombineFirstOnly(_, _)
CombineFirstOnly(pairs, k) ==
    IF k = 0 THEN [newTerms |-> <<>>, grouped |-> {}]
    ELSE LET acc      == CombineFirstOnly(pairs, k - 1)
             term1    == pairs[k][1]
             term2    == pairs[k][2]
             combined == combineBinary(term1.binary, term2.binary)
             exists   == \E j \in 1..Len(acc.newTerms) : acc.newTerms[j].binary = combined
         IN  IF combined = <<>> THEN acc
             ELSE [newTerms |->
                      IF exists THEN acc.newTerms
                      ELSE Append(acc.newTerms,
                                  [binary   |-> combined,
                                   minterms |-> term1.minterms,
                                   used     |-> FALSE]),
                   grouped |-> acc.grouped \cup {term1.binary, term2.binary}]

\* the loop body over the first k pairs: newTerms and the Set grouped
RECURSIVE Combine(_, _)
Combine(pairs, k) ==
    IF k = 0 THEN [newTerms |-> <<>>, grouped |-> {}]
    ELSE LET acc      == Combine(pairs, k - 1)
             term1    == pairs[k][1]
             term2    == pairs[k][2]
             combined == combineBinary(term1.binary, term2.binary)
             exists   == \E j \in 1..Len(acc.newTerms) : acc.newTerms[j].binary = combined
         IN  IF combined = <<>> THEN acc
             ELSE [newTerms |->
                      IF exists THEN acc.newTerms
                      ELSE Append(acc.newTerms,
                                  [binary   |-> combined,
                                   minterms |-> Dedup(term1.minterms \o term2.minterms),
                                   used     |-> FALSE]),
                   grouped |-> acc.grouped \cup {term1.binary, term2.binary}]

\* one body of the while loop up to the forEach of line 116: the terms with
\* their used flags set, and newTerms
MergePass(ts) ==
    LET pairs == PairsFrom(groupByOnes(ts), 1)
        c     == Combine(pairs, Len(pairs))
    IN  [marked   |-> [i \in 1..Len(ts) |-> [ts[i] EXCEPT !.used = (ts[i].binary \in c.grouped)]],
         newTerms |-> c.newTerms]

\* a filter that ignores the used flag
UnusedOrUsed(ts) == SelectSeq(ts, LAMBDA t : TRUE)

Unused(ts) == SelectSeq(ts, LAMBDA t : ~t.used)

\* unshift in place of push
UnshiftUnused(pis, ts) == Unused(ts) \o pis

\* terms.forEach(term => { if (!term.used) primeImplicants.push(term) })
PushUnused(pis, ts) == pis \o Unused(ts)

---------------------------------------------------------------------------
(* findEssentialPrimeImplicants *)

\* coverage[m]: the indices of the prime implicants whose minterms hold m
CoverageOf(pis, m) == SortedSeq({i \in 1..Len(pis) : Includes(pis[i].minterms, m)})

CoveredBy(pis) == UNION {Range(pis[i].minterms) : i \in 1..Len(pis)}

\* a coverage map with a key for every index some implicant holds
EssentialIndicesEveryKey(pis, ms) ==
    LET keys   == SortedSeq(CoveredBy(pis))
        single == SelectSeq(keys, LAMBDA m : Len(CoverageOf(pis, m)) = 1)
    IN  Dedup([k \in 1..Len(single) |-> CoverageOf(pis, single[k])[1]])

\* the Set essentialIndices, in insertion order: Object.values walks the
\* integer keys of coverage in ascending order
EssentialIndices(pis, ms) ==
    LET keys   == SortedSeq(Range(ms))
        single == SelectSeq(keys, LAMBDA m : Len(CoverageOf(pis, m)) = 1)
    IN  Dedup([k \in 1..Len(single) |-> CoverageOf(pis, single[k])[1]])

EssentialOf(pis, ms) ==
    LET idx == EssentialIndices(pis, ms)
    IN  [k \in 1..Len(idx) |-> pis[idx[k]]]

\* pi.minterms.filter(m => uncovered.includes(m)).length
CoverCount(pi, unc) == Len(SelectSeq(pi.minterms, LAMBDA m : Includes(unc, m)))

\* the scan with >= in place of > at line 225
RECURSIVE BestScanLast(_, _, _, _, _)
BestScanLast(pis, ess, add, unc, k) ==
    IF k = 0 THEN [best |-> 0, maxCoverage |-> 0]
    ELSE LET acc == BestScanLast(pis, ess, add, unc, k - 1)
             pi  == pis[k]
         IN  IF ~Includes(ess, pi) /\ ~Includes(add, pi)
                   /\ CoverCount(pi, unc) >= acc.maxCoverage
             THEN [best |-> k, maxCoverage |-> CoverCount(pi, unc)]
             ELSE acc

\* the forEach of lines 222-230 over the first k prime implicants:
\* best is the index of bestPI (0 for null)
RECURSIVE BestScan(_, _, _, _, _)
BestScan(pis, ess, add, unc, k) ==
    IF k = 0 THEN [best |-> 0, maxCoverage |-> 0]
    ELSE LET acc == BestScan(pis, ess, add, unc, k - 1)
             pi  == pis[k]
         IN  IF ~Includes(ess, pi) /\ ~Includes(add, pi)
                   /\ CoverCount(pi, unc) > acc.maxCoverage
             THEN [best |-> k, maxCoverage |-> CoverCount(pi, unc)]
             ELSE acc

BestPI(pis, ess, add, unc) == BestScan(pis, ess, add, unc, Len(pis)).best

\* a splice without its delete count: uncovered.splice(index)
RemoveFromFirst(s, x) ==
    IF ~Includes(s, x) THEN s
    ELSE LET i == CHOOSE j \in 1..Len(s) : s[j] = x /\ \A h \in 1..(j - 1) : s[h] # x
         IN  SubSeq(s, 1, i - 1)

\* uncovered.splice(uncovered.indexOf(m), 1) when m is found
RemoveFirst(s, x) ==
    IF ~Includes(s, x) THEN s
    ELSE LET i == CHOOSE j \in 1..Len(s) : s[j] = x /\ \A h \in 1..(j - 1) : s[h] # x
         IN  SubSeq(s, 1, i - 1) \o SubSeq(s, i + 1, Len(s))

RECURSIVE RemoveAll(_, _)
RemoveAll(s, ms) ==
    IF ms = <<>> THEN s ELSE RemoveAll(RemoveFirst(s, ms[1]), Tail(ms))

---------------------------------------------------------------------------
(* convertToSOP, convertToPOS, findGroups *)

\* a renderer that drops the complement mark
RECURSIVE ProductTermNoPrime(_, _, _)
ProductTermNoPrime(binary, variables, i) ==
    IF i > Len(binary) THEN <<>>
    ELSE (IF binary[i] = "1" \/ binary[i] = "0" THEN <<variables[i]>> ELSE <<>>)
         \o ProductTermNoPrime(binary, variables, i + 1)

\* variables[i] as string concatenation sees it: past the end of the
\* array it is undefined, which += turns into the text "undefined"
NameAt(variables, i) ==
    IF i <= Len(variables) THEN <<variables[i]>>
    ELSE <<"u", "n", "d", "e", "f", "i", "n", "e", "d">>

RECURSIVE ProductTerm(_, _, _)
ProductTerm(binary, variables, i) ==
    IF i > Len(binary) THEN <<>>
    ELSE (IF binary[i] = "1" THEN NameAt(variables, i)
          ELSE IF binary[i] = "0" THEN NameAt(variables, i) \o <<"'">>
          ELSE <<>>) \o ProductTerm(binary, variables, i + 1)

\* the product terms written one after the other, without " + "
convertToSOPUnjoined(pis, variables) ==
    IF Len(pis) = 0 THEN <<"0">>
    ELSE Join([k \in 1..Len(pis) |->
                  LET term == ProductTerm(pis[k].binary, variables, 1)
                  IN  IF term = <<>> THEN <<"1">> ELSE term],
              <<>>)

\* a cube of '-' only rendered as the empty string
convertToSOPBlankTerm(pis, variables) ==
    IF Len(pis) = 0 THEN <<"0">>
    ELSE Join([k \in 1..Len(pis) |-> ProductTerm(pis[k].binary, variables, 1)],
              <<" ", "+", " ">>)

convertToSOP(pis, variables) ==
    IF Len(pis) = 0 THEN <<"0">>
    ELSE Join([k \in 1..Len(pis) |->
                  LET term == ProductTerm(pis[k].binary, variables, 1)
                  IN  IF term = <<>> THEN <<"1">> ELSE term],
              <<" ", "+", " ">>)

SumTerm(maxterm, variables) ==
    LET binary   == ToBinary(maxterm, Len(variables))
        literals == [idx \in 1..Len(binary) |->
                        IF binary[idx] = "0" THEN <<variables[idx]>>
                        ELSE <<variables[idx], "'">>]
    IN  <<"(">> \o Join(literals, <<" ", "+", " ">>) \o <<")">>

convertToPOS(maxterms, variables) ==
    IF Len(maxterms) = 0 THEN <<"1">>
    ELSE Join([k \in 1..Len(maxterms) |-> SumTerm(maxterms[k], variables)], <<"·">>)

findGroups(k) ==
    [i \in 1..Len(k.minterms) |->
        [minterms |-> <<k.minterms[i]>>, size |-> 1,
         binary |-> ToBinary(k.minterms[i], k.numVars)]]

\* allTerms.filter(t => !minterms.includes(t) && !dontCares.includes(t))
Maxterms(k) ==
    SortedSeq({t \in 0..(Pow2(k.numVars) - 1) :
                  ~Includes(k.minterms, t) /\ ~Includes(k.dontCares, t)})

---------------------------------------------------------------------------
(* The call *)

\* BooleanLogicApp constructor: this.currentData (without schematic)
NewData == [parsed |-> <<>>, truthTable |-> <<>>, kmap |-> <<>>, simplified |-> <<>>]

\* BooleanLogicApp constructor, lines 382-384; nothing downloaded or
\* generated yet
NewApp ==
    /\ currentMode = "expression"
    /\ truthTableInputData = <<>>
    /\ multiOutputData = <<>>
    /\ download = <<>>
    /\ generated = <<>>

\* new KMapSimplifier(): the constructor, lines 7-10
NewSimplifier == [primeImplicants |-> <<>>, essentialPrimeImplicants |-> <<>>]

\* minterms.length === 0, line 20
IsAllZeros(k) == Len(k.minterms) = 0

\* a full-table test against the largest index instead of the row count
IsAllOnesOffByOne(k) == Len(k.minterms) = Pow2(k.numVars) - 1

\* minterms.length === Math.pow(2, numVars), line 29
IsAllOnes(k) == Len(k.minterms) = Pow2(k.numVars)

\* the index domain the model draws truth tables from
Domain(n) == 0..Min(Pow2(n) - 1, MaxIndex)

\* a K-map object as KarnaughMap.generate hands it to simplify: index
\* lists in ascending order, don't-cares disjoint from the minterms
MakeKMap(n, S, D) ==
    [minterms  |-> SortedSeq(S),
     variables |-> SubSeq(VarNames, 1, n),
     numVars   |-> n,
     dontCares |-> SortedSeq(D)]

Init ==
    /\ \E n \in MinVars..MaxVars :
         \E S \in SUBSET Domain(n) :
           \E D \in SUBSET (Domain(n) \ S) :
              /\ Cardinality(D) <= MaxDontCares
              /\ kmap = MakeKMap(n, S, D)
    /\ pc = "call"
    /\ terms = <<>>
    /\ primeImplicants = <<>>
    /\ iteration = 0
    /\ essentialPIs = <<>>
    /\ additionalPIs = <<>>
    /\ uncovered = <<>>
    /\ result = <<>>
    /\ instance = NewSimplifier
    /\ calls = <<>>
    /\ request = <<>>
    /\ truthTable = <<>>
    /\ error = ""
    /\ currentData = NewData
    /\ NewApp

\* simplify, lines 20-27
SimplifyAllZeros ==
    /\ pc = "call"
    /\ IsAllZeros(kmap)
    /\ result' = [sop |-> <<"0">>, pos |-> <<"1">>,
                  primeImplicants |-> <<>>, essentialPrimeImplicants |-> <<>>]
    /\ pc' = "done"
    /\ UNCHANGED <<kmap, terms, primeImplicants, iteration,
                   essentialPIs, additionalPIs, uncovered>>
    /\ UNCHANGED others

\* simplify, lines 29-36
SimplifyAllOnes ==
    /\ pc = "call"
    /\ ~IsAllZeros(kmap)
    /\ IsAllOnes(kmap)
    /\ result' = [sop |-> <<"1">>, pos |-> <<"0">>,
                  primeImplicants |-> <<>>, essentialPrimeImplicants |-> <<>>]
    /\ pc' = "done"
    /\ UNCHANGED <<kmap, terms, primeImplicants, iteration,
                   essentialPIs, additionalPIs, uncovered>>
    /\ UNCHANGED others

\* simplify, lines 40-41, and quineMcCluskey, lines 71-78
SimplifyStart ==
    /\ pc = "call"
    /\ ~IsAllZeros(kmap)
    /\ ~IsAllOnes(kmap)
    /\ terms' = InitialTerms(kmap.minterms \o kmap.dontCares, kmap.numVars)
    /\ primeImplicants' = <<>>
    /\ iteration' = 0
    /\ pc' = IF 0 < kmap.numVars THEN "loop" ELSE "rest"
    /\ UNCHANGED <<kmap, essentialPIs, additionalPIs, uncovered, result>>
    /\ UNCHANGED others

\* a loop without the test iteration < numVars
QMPassUnbounded ==
    /\ pc = "loop"
    /\ LET p == MergePass(terms)
       IN  /\ primeImplicants' = PushUnused(primeImplicants, p.marked)
           /\ IF Len(p.newTerms) = 0
              THEN /\ terms' = p.marked
                   /\ iteration' = iteration
                   /\ pc' = "rest"
              ELSE /\ terms' = p.newTerms
                   /\ iteration' = iteration + 1
                   /\ pc' = "loop"
    /\ UNCHANGED <<kmap, essentialPIs, additionalPIs, uncovered, result>>
    /\ UNCHANGED others

\* quineMcCluskey, lines 80-125: one turn of the while loop
QMPass ==
    /\ pc = "loop"
    /\ LET p == MergePass(terms)
       IN  /\ primeImplicants' = PushUnused(primeImplicants, p.marked)
           /\ IF Len(p.newTerms) = 0
              THEN /\ terms' = p.marked
                   /\ iteration' = iteration
                   /\ pc' = "rest"
              ELSE /\ terms' = p.newTerms
                   /\ iteration' = iteration + 1
                   /\ pc' = IF iteration + 1 < kmap.numVars THEN "loop" ELSE "rest"
    /\ UNCHANGED <<kmap, essentialPIs, additionalPIs, uncovered, result>>
    /\ UNCHANGED others

\* quineMcCluskey, lines 127-134
QMRemaining ==
    /\ pc = "rest"
    /\ primeImplicants' = PushUnused(primeImplicants, terms)
    /\ pc' = "cover"
    /\ UNCHANGED <<kmap, terms, iteration, essentialPIs, additionalPIs, uncovered, result>>
    /\ UNCHANGED others

\* findEssentialPrimeImplicants, lines 183-215
FindEssential ==
    /\ pc = "cover"
    /\ LET ess == EssentialOf(primeImplicants, kmap.minterms)
       IN  /\ essentialPIs' = ess
           /\ uncovered' = SelectSeq(kmap.minterms, LAMBDA m : m \notin CoveredBy(ess))
    /\ additionalPIs' = <<>>
    /\ pc' = "greedy"
    /\ UNCHANGED <<kmap, terms, primeImplicants, iteration, result>>
    /\ UNCHANGED others

\* findEssentialPrimeImplicants, lines 218-237: one turn of the greedy loop
GreedyStep ==
    /\ pc = "greedy"
    /\ Len(uncovered) > 0
    /\ LET b == BestPI(primeImplicants, essentialPIs, additionalPIs, uncovered)
       IN  /\ b # 0
           /\ additionalPIs' = Append(additionalPIs, primeImplicants[b])
           /\ uncovered' = RemoveAll(uncovered, primeImplicants[b].minterms)
    /\ UNCHANGED <<kmap, pc, terms, primeImplicants, iteration, essentialPIs, result>>
    /\ UNCHANGED others

\* findEssentialPrimeImplicants, lines 238-243, and simplify, lines 46-60
SimplifyReturn ==
    /\ pc = "greedy"
    /\ \/ Len(uncovered) = 0
       \/ BestPI(primeImplicants, essentialPIs, additionalPIs, uncovered) = 0
    /\ LET essentialPIsRet == essentialPIs \o additionalPIs
       IN  result' = [sop |-> convertToSOP(essentialPIsRet, kmap.variables),
                      pos |-> convertToPOS(Maxterms(kmap), kmap.variables),
                      primeImplicants |-> primeImplicants,
                      essentialPrimeImplicants |-> essentialPIsRet,
                      groups |-> findGroups(kmap)]
    /\ pc' = "done"
    /\ UNCHANGED <<kmap, terms, primeImplicants, iteration,
                   essentialPIs, additionalPIs, uncovered>>
    /\ UNCHANGED others

Next ==
    \/ SimplifyAllZeros
    \/ SimplifyAllOnes
    \/ SimplifyStart
    \/ QMPass
    \/ QMRemaining
    \/ FindEssential
    \/ GreedyStep
    \/ SimplifyReturn

Spec == Init /\ [][Next]_vars

---------------------------------------------------------------------------
(* The call as a function of its argument *)

\* quineMcCluskey, lines 80-134: the while loop from the given iteration
\* on, then the push of the remaining terms
RECURSIVE QMLoop(_, _, _, _)
QMLoop(ts, pis, it, numVars) ==
    IF it >= numVars THEN PushUnused(pis, ts)
    ELSE LET p      == MergePass(ts)
             pushed == PushUnused(pis, p.marked)
         IN  IF Len(p.newTerms) = 0 THEN PushUnused(pushed, p.marked)
             ELSE QMLoop(p.newTerms, pushed, it + 1, numVars)

quineMcCluskey(minterms, numVars) ==
    QMLoop(InitialTerms(minterms, numVars), <<>>, 0, numVars)

\* findEssentialPrimeImplicants, lines 218-241: additionalPIs when the
\* loop ends, by an empty uncovered or by the break
RECURSIVE GreedyLoop(_, _, _, _)
GreedyLoop(pis, ess, add, unc) ==
    IF Len(unc) = 0 THEN add
    ELSE LET b == BestPI(pis, ess, add, unc)
         IN  IF b = 0 THEN add
             ELSE GreedyLoop(pis, ess, Append(add, pis[b]),
                             RemoveAll(unc, pis[b].minterms))

findEssentialPrimeImplicants(pis, minterms) ==
    LET ess == EssentialOf(pis, minterms)
        unc == SelectSeq(minterms, LAMBDA m : m \notin CoveredBy(ess))
    IN  ess \o GreedyLoop(pis, ess, <<>>, unc)

\* the object simplify(k) returns
simplify(k) ==
    IF IsAllZeros(k)
    THEN [sop |-> <<"0">>, pos |-> <<"1">>,
          primeImplicants |-> <<>>, essentialPrimeImplicants |-> <<>>]
    ELSE IF IsAllOnes(k)
    THEN [sop |-> <<"1">>, pos |-> <<"0">>,
          primeImplicants |-> <<>>, essentialPrimeImplicants |-> <<>>]
    ELSE LET pis == quineMcCluskey(k.minterms \o k.dontCares, k.numVars)
             ess == findEssentialPrimeImplicants(pis, k.minterms)
         IN  [sop |-> convertToSOP(ess, k.variables),
              pos |-> convertToPOS(Maxterms(k), k.variables),
              primeImplicants |-> pis,
              essentialPrimeImplicants |-> ess,
              groups |-> findGroups(k)]

\* no simplify call is in progress
NoCall ==
    /\ kmap = <<>>
    /\ pc = "idle"
    /\ terms = <<>>
    /\ primeImplicants = <<>>
    /\ iteration = 0
    /\ essentialPIs = <<>>
    /\ additionalPIs = <<>>
    /\ uncovered = <<>>
    /\ result = <<>>

locals == <<kmap, pc, terms, primeImplicants, iteration,
            essentialPIs, additionalPIs, uncovered, result>>

---------------------------------------------------------------------------
(* A session: several simplify calls on one KMapSimplifier object *)

MaxCalls == 3

\* the truth tables the calls of a session are drawn from
SessionRequests ==
    {MakeKMap(MinVars, S, D) :
        S \in SUBSET Domain(MinVars), D \in {{}, {0}}} \ 
    {MakeKMap(MinVars, S, {0}) : S \in {T \in SUBSET Domain(MinVars) : 0 \in T}}

\* a simplify that keeps its prime implicants in the field of the object
SimplifyCallKeeping(self, k) ==
    LET r   == simplify(k)
        all == self.primeImplicants \o r.primeImplicants
    IN  [result |-> [r EXCEPT !.primeImplicants = all],
         self   |-> [self EXCEPT !.primeImplicants = all],
         kmap   |-> k]

\* this.simplify(k): the object returned, and this and the argument as the
\* call leaves them (no statement of lines 17-61, 69-313 assigns a field of
\* this or an element of minterms, dontCares or variables)
SimplifyCall(self, k) ==
    [result |-> simplify(k), self |-> self, kmap |-> k]

InitSession ==
    /\ NoCall
    /\ instance = NewSimplifier
    /\ calls = <<>>
    /\ request = <<>>
    /\ truthTable = <<>>
    /\ error = ""
    /\ currentData = NewData
    /\ NewApp

Simplify ==
    /\ Len(calls) < MaxCalls
    /\ \E k \in SessionRequests :
          LET c == SimplifyCall(instance, k)
          IN  /\ instance' = c.self
              /\ calls' = Append(calls, [kmap |-> k, after |-> c.kmap, result |-> c.result])
    /\ UNCHANGED <<locals, request, truthTable, error, currentData, app>>

NextSession == Simplify

SpecSession == InitSession /\ [][NextSession]_vars

---------------------------------------------------------------------------
(* A call whose index lists nobody has checked *)

\* how far past 2^n - 1 an index of an unchecked request may lie
MaxExcess == 1

\* the indices of an unchecked request over n variables
AnyIndex(n) == 0..(Pow2(n) - 1 + MaxExcess)

\* every index within [0, 2^n) and none both required and don't-care
ValidRequest(k) ==
    /\ \A i \in 1..Len(k.minterms) : k.minterms[i] \in 0..(Pow2(k.numVars) - 1)
    /\ \A i \in 1..Len(k.dontCares) : k.dontCares[i] \in 0..(Pow2(k.numVars) - 1)
    /\ Range(k.minterms) \cap Range(k.dontCares) = {}

\* simplify called directly, with any two index lists
InitUnchecked ==
    /\ \E n \in MinVars..(MinVars + 1) :
         \E S \in SUBSET AnyIndex(n) :
           \E D \in SUBSET AnyIndex(n) :
              /\ Cardinality(D) <= 1
              /\ kmap = MakeKMap(n, S, D)
    /\ pc = "call"
    /\ terms = <<>>
    /\ primeImplicants = <<>>
    /\ iteration = 0
    /\ essentialPIs = <<>>
    /\ additionalPIs = <<>>
    /\ uncovered = <<>>
    /\ result = <<>>
    /\ instance = NewSimplifier
    /\ calls = <<>>
    /\ request = <<>>
    /\ truthTable = <<>>
    /\ error = ""
    /\ currentData = NewData
    /\ NewApp

SpecUnchecked == InitUnchecked /\ [][Next]_vars

\* C12: a simplify call with an index outside [0, 2^n) or with an index
\* both required and don't-care ends with an error and without a result.
C12_InvalidRequestRejected ==
    (pc = "done" /\ ~ValidRequest(kmap)) => (error # "" /\ result = <<>>)

---------------------------------------------------------------------------
(* Reading an expression string back: the notation of the tool, NOT as a  *)
(* postfix ', AND by juxtaposition or a centred dot, OR as +, with the     *)
(* variable at position 1 the most significant bit of the index.           *)

StripSpaces(s) == SelectSeq(s, LAMBDA c : c # " ")

\* the pieces of s between the occurrences of the character sep
RECURSIVE SplitOn(_, _)
SplitOn(s, sep) ==
    IF ~Includes(s, sep) THEN <<s>>
    ELSE LET i == CHOOSE j \in 1..Len(s) : s[j] = sep /\ \A h \in 1..(j - 1) : s[h] # sep
         IN  <<SubSeq(s, 1, i - 1)>> \o SplitOn(SubSeq(s, i + 1, Len(s)), sep)

\* the value (0 or 1) of the variable at position p in assignment idx
BitOf(idx, n, p) == (idx \div Pow2(n - p)) % 2

\* the literal starting at position i of t is true in assignment idx
LiteralTrue(t, i, variables, idx) ==
    LET p == CHOOSE q \in 1..Len(variables) : variables[q] = t[i]
        v == BitOf(idx, Len(variables), p)
    IN  IF CharAt(t, i + 1) = "'" THEN v = 0 ELSE v = 1

LiteralStarts(t, variables) == {i \in 1..Len(t) : Includes(variables, t[i])}

EvalProduct(t, variables, idx) ==
    IF t = <<"1">> THEN TRUE
    ELSE IF t = <<"0">> THEN FALSE
    ELSE \A i \in LiteralStarts(t, variables) : LiteralTrue(t, i, variables, idx)

EvalSum(t, variables, idx) ==
    IF t = <<"1">> THEN TRUE
    ELSE IF t = <<"0">> THEN FALSE
    ELSE \E i \in LiteralStarts(t, variables) : LiteralTrue(t, i, variables, idx)

\* a sum of products
EvalSOP(s, variables, idx) ==
    LET ts == SplitOn(StripSpaces(s), "+")
    IN  \E k \in 1..Len(ts) : EvalProduct(ts[k], variables, idx)

\* a product of parenthesised sums
EvalPOS(s, variables, idx) ==
    LET fs == SplitOn(StripSpaces(s), "·")
    IN  \A k \in 1..Len(fs) :
           EvalSum(SelectSeq(fs[k], LAMBDA c : c # "(" /\ c # ")"), variables, idx)

AllIndices == 0..(Pow2(kmap.numVars) - 1)

Required == Range(kmap.minterms)

DontCare == Range(kmap.dontCares)

SopAt(idx) == EvalSOP(result.sop, kmap.variables, idx)

PosAt(idx) == EvalPOS(result.pos, kmap.variables, idx)

---------------------------------------------------------------------------
(* Claims *)

\* C1: with an empty don't-care set, the SOP string that simplify returns,
\* read back and evaluated on every assignment index, is true exactly on
\* the required minterms.
C1_SopRoundTrip ==
    (pc = "done" /\ kmap.dontCares = <<>>) =>
        \A idx \in AllIndices : SopAt(idx) <=> idx \in Required

\* a call that went through merging and greedy selection has returned
C1_Witness ==
    /\ pc = "done"
    /\ kmap.numVars = 3
    /\ kmap.minterms = <<3, 5, 6, 7>>
    /\ kmap.dontCares = <<>>
    /\ Len(result.essentialPrimeImplicants) = 3

\* C2: with a non-empty don't-care set, the returned SOP is 1 on every
\* required minterm and 0 on every maxterm; don't-care indices are free.
C2_SopWithDontCares ==
    (pc = "done" /\ kmap.dontCares # <<>>) =>
        \A idx \in AllIndices :
            /\ idx \in Required => SopAt(idx)
            /\ (idx \notin Required /\ idx \notin DontCare) => ~SopAt(idx)

\* a returned call in which one don't-care index is covered by the SOP and
\* another one is not
C2_Witness ==
    /\ pc = "done"
    /\ kmap.minterms # <<>>
    /\ \E d1, d2 \in DontCare : SopAt(d1) /\ ~SopAt(d2)

\* C3: an empty required set returns sop "0", pos "1" and a full required
\* set returns sop "1", pos "0", both with empty implicant lists, and the
\* call reaches no step of the prime-implicant generator.
C3_ConstantCases ==
    /\ (pc # "call" /\ Required = {}) =>
           /\ pc = "done"
           /\ result.sop = <<"0">> /\ result.pos = <<"1">>
           /\ result.primeImplicants = <<>>
           /\ result.essentialPrimeImplicants = <<>>
           /\ terms = <<>> /\ primeImplicants = <<>>
    /\ (pc # "call" /\ Required = AllIndices) =>
           /\ pc = "done"
           /\ result.sop = <<"1">> /\ result.pos = <<"0">>
           /\ result.primeImplicants = <<>>
           /\ result.essentialPrimeImplicants = <<>>
           /\ terms = <<>> /\ primeImplicants = <<>>

\* the constant-1 case has returned for a three-variable map
C3_Witness ==
    /\ pc = "done"
    /\ kmap.numVars = 3
    /\ Required = AllIndices
    /\ result.sop = <<"1">>

\* C4: with an empty don't-care set the returned SOP and POS strings denote
\* the same function: on every index exactly one of "SOP is true" and "POS
\* is false" holds, and the SOP is true exactly on the required minterms.
C4_SopPosSameFunction ==
    (pc = "done" /\ kmap.dontCares = <<>>) =>
        \A idx \in AllIndices :
            /\ SopAt(idx) # (~PosAt(idx))
            /\ SopAt(idx) <=> idx \in Required

(* Cubes as sets of assignment indices, to state what a prime implicant is *)

Cubes(n) == [1..n -> {"0", "1", "-"}]

Matches(c, idx) ==
    \A i \in 1..Len(c) :
        c[i] = "-" \/ c[i] = (IF BitOf(idx, Len(c), i) = 1 THEN "1" ELSE "0")

CubeCover(c) == {idx \in 0..(Pow2(Len(c)) - 1) : Matches(c, idx)}

\* the cubes got from c by replacing one fixed position with '-'
Wider(c) == {[c EXCEPT ![i] = "-"] : i \in {h \in 1..Len(c) : c[h] # "-"}}

\* every cube of every width of the model, with its cover set and the
\* cover sets of its one-position generalisations
CubeTable ==
    [n \in MinVars..MaxVars |->
        {[pattern |-> c, cover |-> CubeCover(c),
          wider |-> {CubeCover(w) : w \in Wider(c)}] : c \in Cubes(n)}]

\* the cube of table entry e is a prime implicant of the index set T
IsPrime(e, T) ==
    /\ e.cover \subseteq T
    /\ \A w \in e.wider : ~(w \subseteq T)

\* the index set quineMcCluskey is called with: [...minterms, ...dontCares]
AllOnes == Required \cup DontCare

Patterns(pis) == {pis[i].binary : i \in 1..Len(pis)}

\* C5: when quineMcCluskey returns, a cube is in the returned list iff all
\* the indices it covers are in the input set and none of its one-position
\* generalisations has that property.
C5_ExactlyThePrimes ==
    pc = "cover" =>
        LET returned == Patterns(primeImplicants)
            T        == AllOnes
        IN  \A e \in CubeTable[kmap.numVars] :
               e.pattern \in returned <=> IsPrime(e, T)

\* quineMcCluskey has returned primes found in two different passes, with a
\* don't-care index merged into one of them
C5_Witness ==
    /\ pc = "cover"
    /\ kmap.dontCares # <<>>
    /\ \E i, j \in 1..Len(primeImplicants) :
          /\ Dashes(primeImplicants[i].binary) = 1
          /\ Dashes(primeImplicants[j].binary) = 2
          /\ Range(primeImplicants[j].minterms) \cap DontCare # {}

\* C6: the list quineMcCluskey returns holds no pattern twice.
C6_NoDuplicatePatterns ==
    pc \in {"cover", "greedy", "done"} =>
        \A i, j \in 1..Len(primeImplicants) :
            i # j => primeImplicants[i].binary # primeImplicants[j].binary

\* C7: every implicant of result.essentialPrimeImplicants covers some
\* required minterm that no prime implicant of another pattern in
\* result.primeImplicants covers.
C7_ReturnedAreEssential ==
    pc = "done" =>
        \A k \in 1..Len(result.essentialPrimeImplicants) :
            LET e == result.essentialPrimeImplicants[k]
            IN  \E m \in Required :
                   /\ Includes(e.minterms, m)
                   /\ \A i \in 1..Len(result.primeImplicants) :
                         result.primeImplicants[i].binary # e.binary
                             => ~Includes(result.primeImplicants[i].minterms, m)

\* the list findEssentialPrimeImplicants returns
Solution == essentialPIs \o additionalPIs

\* C8: removing any one implicant from the solution leaves some required
\* minterm uncovered by the others.
C8_SolutionIrredundant ==
    pc = "done" =>
        \A k \in 1..Len(Solution) :
            \E m \in Required :
                /\ Includes(Solution[k].minterms, m)
                /\ \A j \in 1..Len(Solution) :
                      j # k => ~Includes(Solution[j].minterms, m)

(* The order of cube strings: JavaScript compares code units *)

CharCode(c) == IF c = "-" THEN 45 ELSE IF c = "0" THEN 48 ELSE 49

\* a < b for two cube strings of the same length
StrLess(a, b) ==
    \E i \in 1..Len(a) :
        /\ CharCode(a[i]) < CharCode(b[i])
        /\ \A h \in 1..(i - 1) : a[h] = b[h]

\* the prime implicants a greedy step may still pick
Selectable == {i \in 1..Len(primeImplicants) :
                  /\ ~Includes(essentialPIs, primeImplicants[i])
                  /\ ~Includes(additionalPIs, primeImplicants[i])}

Gain(i) == CoverCount(primeImplicants[i], uncovered)

\* the implicant a greedy step has just appended
Picked == additionalPIs'[Len(additionalPIs')]

\* C9, as claimed: a greedy step picks a selectable implicant of largest
\* gain, among those one of lowest literal count, among those the one of
\* smallest cube string.
C9_TieBreakByLiteralsThenString ==
    [][GreedyStep =>
         \E i \in Selectable :
            /\ primeImplicants[i] = Picked
            /\ \A j \in Selectable :
                  \/ Gain(j) < Gain(i)
                  \/ /\ Gain(j) = Gain(i)
                     /\ LiteralCount(primeImplicants[j].binary)
                            > LiteralCount(primeImplicants[i].binary)
                  \/ /\ Gain(j) = Gain(i)
                     /\ LiteralCount(primeImplicants[j].binary)
                            = LiteralCount(primeImplicants[i].binary)
                     /\ ~StrLess(primeImplicants[j].binary, primeImplicants[i].binary)]_vars

\* C9, amended: a greedy step picks a selectable implicant of largest gain,
\* and among those of largest gain the one that comes first in the
\* prime-implicant list.
C9_FirstOfLargestGain ==
    [][GreedyStep =>
         \E i \in Selectable :
            /\ primeImplicants[i] = Picked
            /\ Gain(i) > 0
            /\ \A j \in Selectable : Gain(j) <= Gain(i)
            /\ \A j \in Selectable : j < i => Gain(j) < Gain(i)]_vars

\* the minterms that were uncovered before the latest greedy step
UncoveredBeforeLast ==
    LET before == essentialPIs \o SubSeq(additionalPIs, 1, Len(additionalPIs) - 1)
    IN  SelectSeq(kmap.minterms, LAMBDA m : m \notin CoveredBy(before))

\* a greedy step has picked an implicant while another one, not selected
\* before, had the same gain, the same literal count and a smaller string
C9_Witness ==
    /\ pc = "greedy"
    /\ Len(additionalPIs) > 0
    /\ LET last == additionalPIs[Len(additionalPIs)]
       IN  \E i \in 1..Len(primeImplicants) :
              LET q == primeImplicants[i]
              IN  /\ ~Includes(essentialPIs, q) /\ ~Includes(additionalPIs, q)
                  /\ CoverCount(q, UncoveredBeforeLast) = CoverCount(last, UncoveredBeforeLast)
                  /\ LiteralCount(q.binary) = LiteralCount(last.binary)
                  /\ StrLess(q.binary, last.binary)

\* C10, as claimed: the returned list is in ascending order of literal
\* count and, within one literal count, of cube string.
C10_AscendingLiteralsThenString ==
    pc = "cover" =>
        \A i, j \in 1..Len(primeImplicants) :
            i < j =>
                LET a == primeImplicants[i].binary
                    b == primeImplicants[j].binary
                IN  \/ LiteralCount(a) < LiteralCount(b)
                    \/ LiteralCount(a) = LiteralCount(b) /\ ~StrLess(b, a)

\* C10, amended: the returned list is in pass order, that is in descending
\* (non-increasing) order of literal count.
C10_DescendingLiterals ==
    pc = "cover" =>
        \A i, j \in 1..Len(primeImplicants) :
            i < j => LiteralCount(primeImplicants[i].binary)
                        >= LiteralCount(primeImplicants[j].binary)

\* quineMcCluskey has returned primes of two different literal counts from
\* a four-variable table
C10_Witness ==
    /\ pc = "cover"
    /\ kmap.numVars = 4
    /\ \E i, j \in 1..Len(primeImplicants) :
          /\ i < j
          /\ LiteralCount(primeImplicants[i].binary) = 3
          /\ LiteralCount(primeImplicants[j].binary) = 2


---------------------------------------------------------------------------
(* KarnaughMap: the grid of a truth table.  The cell values 0, 1 and 'X'   *)
(* are written "0", "1" and "X"; rows, columns and maps count from 0 as in *)
(* the code, while grid[row + 1][col + 1] is the cell grid[row][col].      *)

\* the largest number of variables KarnaughMap.generate accepts
MaxGridVars == 6

\* minterms marked in the truth table of a generate call
MaxMarked == 2

\* the two-bit words in counting order
grayCodeCounting == << <<"0", "0">>, <<"0", "1">>, <<"1", "0">>, <<"1", "1">> >>

\* const grayCode = ['00', '01', '11', '10']
grayCode == << <<"0", "0">>, <<"0", "1">>, <<"1", "1">>, <<"1", "0">> >>

\* s.indexOf(x): counted from 0, -1 when x is not an element
IndexOf(s, x) ==
    IF ~Includes(s, x) THEN -1
    ELSE (CHOOSE j \in 1..Len(s) : s[j] = x /\ \A h \in 1..(j - 1) : s[h] # x) - 1

\* s.slice(a, b) and, with b = Len(s), s.slice(a)
Slice(s, a, b) == SubSeq(s, a + 1, Min(b, Len(s)))

\* create2VarKMap: row and col of minterm m
Cell2(m) == [map |-> 0, row |-> m \div 2, col |-> m % 2]

\* a three-variable placement with two row bits and one column bit
Cell3TwoRowBits(m) ==
    LET binary == ToBinary(m, 3)
    IN  [map |-> 0,
         row |-> IndexOf(grayCode, Slice(binary, 0, 2)),
         col |-> IF binary[3] = "1" THEN 1 ELSE 0]

\* create3VarKMap: parseInt(rowBit), grayCode.indexOf(colBits)
Cell3(m) ==
    LET binary == ToBinary(m, 3)
    IN  [map |-> 0,
         row |-> IF binary[1] = "1" THEN 1 ELSE 0,
         col |-> IndexOf(grayCode, Slice(binary, 1, Len(binary)))]

Cell4(m) ==
    LET binary == ToBinary(m, 4)
    IN  [map |-> 0,
         row |-> IndexOf(grayCode, Slice(binary, 0, 2)),
         col |-> IndexOf(grayCode, Slice(binary, 2, Len(binary)))]

\* create5VarKMap: grid1 for firstBit '0', grid2 otherwise
Cell5(m) ==
    LET binary == ToBinary(m, 5)
    IN  [map |-> IF binary[1] = "0" THEN 0 ELSE 1,
         row |-> IndexOf(grayCode, Slice(binary, 1, 3)),
         col |-> IndexOf(grayCode, Slice(binary, 3, Len(binary)))]

Cell6(m) ==
    LET binary == ToBinary(m, 6)
    IN  [map |-> IndexOf(grayCode, Slice(binary, 0, 2)),
         row |-> IndexOf(grayCode, Slice(binary, 2, 4)),
         col |-> IndexOf(grayCode, Slice(binary, 4, Len(binary)))]

\* the cell the create function for n variables writes for index m
CellOf(n, m) ==
    CASE n = 2 -> Cell2(m)
      [] n = 3 -> Cell3(m)
      [] n = 4 -> Cell4(m)
      [] n = 5 -> Cell5(m)
      [] n = 6 -> Cell6(m)

\* CellOf for every index of every grid size, computed once
Placement ==
    [n \in MinVars..MaxGridVars |-> [m \in 0..(Pow2(n) - 1) |-> CellOf(n, m)]]

\* the cells the forEach over a list of indices writes to
CellsOf(n, indices) == {Placement[n][indices[i]] : i \in 1..Len(indices)}

\* what the two forEach loops leave in a cell: 1 from the minterms, then
\* 'X' from the dontCares written over it
CellValue(ones, xs, cell) ==
    IF cell \in xs THEN "X" ELSE IF cell \in ones THEN "1" ELSE "0"

FilledGrid(n, rows, cols, map, minterms, dontCares) ==
    LET ones == CellsOf(n, minterms)
        xs   == CellsOf(n, dontCares)
    IN  [r \in 1..rows |->
           [c \in 1..cols |->
              CellValue(ones, xs, [map |-> map, row |-> r - 1, col |-> c - 1])]]

create2VarKMap(variables, minterms, dontCares) ==
    [grid       |-> FilledGrid(2, 2, 2, 0, minterms, dontCares),
     rowLabels  |-> << <<"0">>, <<"1">> >>,
     colLabels  |-> << <<"0">>, <<"1">> >>,
     rowVars    |-> <<variables[1]>>,
     colVars    |-> <<variables[2]>>,
     dimensions |-> [rows |-> 2, cols |-> 2]]

\* a three-variable map of 4 rows and 2 columns
create3VarKMapUpright(variables, minterms, dontCares) ==
    [grid       |-> FilledGrid(3, 4, 2, 0, minterms, dontCares),
     rowLabels  |-> << <<"0">>, <<"1">> >>,
     colLabels  |-> grayCode,
     rowVars    |-> <<variables[1]>>,
     colVars    |-> <<variables[2], variables[3]>>,
     dimensions |-> [rows |-> 4, cols |-> 2]]

create3VarKMap(variables, minterms, dontCares) ==
    [grid       |-> FilledGrid(3, 2, 4, 0, minterms, dontCares),
     rowLabels  |-> << <<"0">>, <<"1">> >>,
     colLabels  |-> grayCode,
     rowVars    |-> <<variables[1]>>,
     colVars    |-> <<variables[2], variables[3]>>,
     dimensions |-> [rows |-> 2, cols |-> 4]]

create4VarKMap(variables, minterms, dontCares) ==
    [grid       |-> FilledGrid(4, 4, 4, 0, minterms, dontCares),
     rowLabels  |-> grayCode,
     colLabels  |-> grayCode,
     rowVars    |-> <<variables[1], variables[2]>>,
     colVars    |-> <<variables[3], variables[4]>>,
     dimensions |-> [rows |-> 4, cols |-> 4]]

create5VarKMap(variables, minterms, dontCares) ==
    [grid       |-> [g \in 1..2 |-> FilledGrid(5, 4, 4, g - 1, minterms, dontCares)],
     rowLabels  |-> grayCode,
     colLabels  |-> grayCode,
     rowVars    |-> <<variables[2], variables[3]>>,
     colVars    |-> <<variables[4], variables[5]>>,
     mapLabels  |-> << <<variables[1], "=", "0">>, <<variables[1], "=", "1">> >>,
     dimensions |-> [rows |-> 4, cols |-> 4, maps |-> 2]]

create6VarKMap(variables, minterms, dontCares) ==
    [grid       |-> [g \in 1..4 |-> FilledGrid(6, 4, 4, g - 1, minterms, dontCares)],
     rowLabels  |-> grayCode,
     colLabels  |-> grayCode,
     rowVars    |-> <<variables[3], variables[4]>>,
     colVars    |-> <<variables[5], variables[6]>>,
     mapLabels  |-> [g \in 1..4 |-> <<variables[1], variables[2], "=">> \o grayCode[g]],
     dimensions |-> [rows |-> 4, cols |-> 4, maps |-> 4]]

\* the value of a string of binary digits
RECURSIVE BitsValue(_)
BitsValue(b) ==
    IF Len(b) = 0 THEN 0
    ELSE 2 * BitsValue(SubSeq(b, 1, Len(b) - 1)) + (IF b[Len(b)] = "1" THEN 1 ELSE 0)

\* parseInt(s, 2): the value of the longest prefix of binary digits, NaN
\* (written "NaN") when s does not start with one
parseInt2(s) ==
    LET stops == {i \in 1..Len(s) : s[i] \notin {"0", "1"}}
        k     == IF stops = {} THEN Len(s)
                 ELSE (CHOOSE i \in stops : \A j \in stops : i <= j) - 1
    IN  IF k = 0 THEN "NaN" ELSE BitsValue(SubSeq(s, 1, k))

\* a number 0..3 as JavaScript writes it when it is added to a string
NumberText(d) == <<"0", "1", "2", "3">>[d + 1]

\* reading three-variable cells row by row
getMintermFromPositionRowMajor(row, col, numVars, mapIndex) ==
    CASE numVars = 2 -> row * 2 + col
      [] numVars = 3 -> row * 4 + col
      [] numVars = 4 -> parseInt2(grayCode[row + 1] \o grayCode[col + 1])
      [] numVars = 5 ->
            parseInt2(<<NumberText(mapIndex)>> \o grayCode[row + 1] \o grayCode[col + 1])
      [] numVars = 6 ->
            parseInt2(grayCode[mapIndex + 1] \o grayCode[row + 1] \o grayCode[col + 1])
      [] OTHER -> 0

\* KarnaughMap.getMintermFromPosition(row, col, numVars, mapIndex) for row,
\* col and mapIndex in 0..3
getMintermFromPosition(row, col, numVars, mapIndex) ==
    CASE numVars = 2 -> row * 2 + col
      [] numVars = 3 -> parseInt2(<<NumberText(row)>> \o grayCode[col + 1])
      [] numVars = 4 -> parseInt2(grayCode[row + 1] \o grayCode[col + 1])
      [] numVars = 5 ->
            parseInt2(<<NumberText(mapIndex)>> \o grayCode[row + 1] \o grayCode[col + 1])
      [] numVars = 6 ->
            parseInt2(grayCode[mapIndex + 1] \o grayCode[row + 1] \o grayCode[col + 1])
      [] OTHER -> 0

\* accepting every variable count from 2 on
GenerateThrowsNoUpperLimit(tt) == tt.numVars < MinVars

\* if (numVars < 2 || numVars > 6) throw
GenerateThrows(tt) == tt.numVars < MinVars \/ tt.numVars > MaxGridVars

\* const { ..., dontCares = [] } = truthTable
DontCaresOf(tt) == IF "dontCares" \in DOMAIN tt THEN tt.dontCares ELSE <<>>

\* KarnaughMap.generate(tt) when it does not throw
generate(tt) ==
    LET dontCares == DontCaresOf(tt)
        created ==
          CASE tt.numVars = 2 -> create2VarKMap(tt.variables, tt.minterms, dontCares)
            [] tt.numVars = 3 -> create3VarKMap(tt.variables, tt.minterms, dontCares)
            [] tt.numVars = 4 -> create4VarKMap(tt.variables, tt.minterms, dontCares)
            [] tt.numVars = 5 -> create5VarKMap(tt.variables, tt.minterms, dontCares)
            [] tt.numVars = 6 -> create6VarKMap(tt.variables, tt.minterms, dontCares)
            [] OTHER -> <<>>   \* no case: kmap is undefined, the spread adds nothing
    IN  created @@ [variables |-> tt.variables, minterms |-> tt.minterms,
                    dontCares |-> dontCares, numVars |-> tt.numVars]

\* the subsets of S with at most k elements
RECURSIVE SubsetsUpTo(_, _)
SubsetsUpTo(S, k) ==
    IF k = 0 THEN {{}}
    ELSE LET P == SubsetsUpTo(S, k - 1)
         IN  P \cup {T \cup {x} : T \in P, x \in S}

\* the indices a truth table over n variables can mark; a table that
\* generate rejects is given none
GridDomain(n) ==
    IF n < MinVars \/ n > MaxGridVars THEN {} ELSE 0..(Pow2(n) - 1)

\* a truth-table object generate is called with
KMapRequest(n, S, D) ==
    [op        |-> "generate",
     variables |-> SubSeq(VarNames, 1, n),
     minterms  |-> SortedSeq(S),
     numVars   |-> n,
     dontCares |-> SortedSeq(D)]

---------------------------------------------------------------------------
(* BooleanParser: from an expression string to what eval is given *)

\* the letters an expression of the model is written with
IsLetter(c) == Includes(VarNames, c)

\* expression.trim()
RECURSIVE Trim(_)
Trim(s) ==
    IF s = <<>> THEN s
    ELSE IF s[1] = " " THEN Trim(Tail(s))
    ELSE IF s[Len(s)] = " " THEN Trim(SubSeq(s, 1, Len(s) - 1))
    ELSE s

\* [...new Set(matches)].sort(): the letters of the expression, each once,
\* in the order of their character codes
extractVariables(expression) == SelectSeq(VarNames, LAMBDA v : Includes(expression, v))

\* s.replace(new RegExp(`\\${op}`, 'g'), to) for a one-character op
RECURSIVE ReplaceAll(_, _, _)
ReplaceAll(s, op, to) ==
    IF s = <<>> THEN <<>>
    ELSE (IF s[1] = op THEN to ELSE <<s[1]>>) \o ReplaceAll(Tail(s), op, to)

\* s.replace(new RegExp(`([A-Za-z])\\${op}`, 'g'), '!$1')
RECURSIVE NotPostfix(_, _)
NotPostfix(s, op) ==
    IF s = <<>> THEN <<>>
    ELSE IF Len(s) >= 2 /\ IsLetter(s[1]) /\ s[2] = op
         THEN <<"!", s[1]>> \o NotPostfix(SubSeq(s, 3, Len(s)), op)
         ELSE <<s[1]>> \o NotPostfix(Tail(s), op)

\* s.replace(new RegExp(`\\${op}([A-Za-z])`, 'g'), '!$1')
RECURSIVE NotPrefix(_, _)
NotPrefix(s, op) ==
    IF s = <<>> THEN <<>>
    ELSE IF Len(s) >= 2 /\ s[1] = op /\ IsLetter(s[2])
         THEN <<"!", s[2]>> \o NotPrefix(SubSeq(s, 3, Len(s)), op)
         ELSE <<s[1]>> \o NotPrefix(Tail(s), op)

\* s.replace(/([A-Za-z!)\]])([A-Za-z(!])/g, '$1&&$2'): the matches are
\* taken from left to right and do not overlap
RECURSIVE ImplicitAnd(_)
ImplicitAnd(s) ==
    IF s = <<>> THEN <<>>
    ELSE IF Len(s) >= 2 /\ (IsLetter(s[1]) \/ s[1] \in {"!", ")", "]"})
                        /\ (IsLetter(s[2]) \/ s[2] \in {"(", "!"})
         THEN <<s[1], "&", "&", s[2]>> \o ImplicitAnd(SubSeq(s, 3, Len(s)))
         ELSE <<s[1]>> \o ImplicitAnd(Tail(s))

\* toEvaluableFormat, for an expression written with letters, ', ~, +, |
\* and * (the operators of other scripts leave such a string as it is)
toEvaluableFormat(expression) ==
    LET n1 == NotPrefix(NotPostfix(expression, "'"), "'")
        n2 == NotPrefix(NotPostfix(n1, "~"), "~")
        o1 == ReplaceAll(n2, "+", <<"|", "|">>)
        o2 == ReplaceAll(o1, "|", <<"|", "|">>)
        a1 == ReplaceAll(o2, "*", <<"&", "&">>)
        a2 == ReplaceAll(a1, ".", <<"&", "&">>)
        i1 == ImplicitAnd(a2)
    IN  ReplaceAll(i1, "^", <<"!", "=">>)

\* BooleanParser.parse: replace and match do not throw on a string, so
\* valid is always true
parse(expression) ==
    LET cleaned == StripSpaces(expression)
    IN  [original  |-> expression,
         cleaned   |-> cleaned,
         variables |-> extractVariables(cleaned),
         evaluable |-> toEvaluableFormat(cleaned),
         valid     |-> TRUE]


\* evaluate, lines 109-113: every variable name replaced by its value
RECURSIVE Substitute(_, _, _, _)
Substitute(s, variables, idx, p) ==
    IF p > Len(variables) THEN s
    ELSE Substitute(ReplaceAll(s, variables[p],
                               <<IF BitOf(idx, Len(variables), p) = 1 THEN "1" ELSE "0">>),
                    variables, idx, p + 1)

IsDigit(c) == c \in {"0", "1"}

\* the tokens eval reads from a string of digits, !, && and ||: a run of
\* digits is one numeric literal, any other character stands alone
RECURSIVE Tokens(_, _)
Tokens(s, digits) ==
    LET flush == IF digits = <<>> THEN <<>> ELSE <<digits>>
    IN  IF s = <<>> THEN flush
        ELSE IF IsDigit(s[1]) THEN Tokens(Tail(s), Append(digits, s[1]))
        ELSE IF Len(s) >= 2 /\ s[1] \in {"|", "&"} /\ s[2] = s[1]
             THEN flush \o <<SubSeq(s, 1, 2)>> \o Tokens(SubSeq(s, 3, Len(s)), <<>>)
        ELSE flush \o <<SubSeq(s, 1, 1)>> \o Tokens(Tail(s), <<>>)

IsNumber(t) == t # <<>> /\ \A i \in 1..Len(t) : IsDigit(t[i])

\* eval is called from a class body, which is strict code: a literal of
\* several digits that starts with 0 is a SyntaxError there
IsLiteral(t) == IsNumber(t) /\ (Len(t) = 1 \/ t[1] # "0")

IsBinary(t) == t = <<"|", "|">> \/ t = <<"&", "&">>

\* the token list is an expression: operands, each a literal after any
\* number of !, with one binary operator between neighbours
RECURSIVE Parses(_, _)
Parses(ts, wantOperand) ==
    IF wantOperand
    THEN /\ ts # <<>>
         /\ \/ ts[1] = <<"!">> /\ Parses(Tail(ts), TRUE)
            \/ IsLiteral(ts[1]) /\ Parses(Tail(ts), FALSE)
    ELSE \/ ts = <<>>
         \/ IsBinary(ts[1]) /\ Parses(Tail(ts), TRUE)

\* the pieces of a token list between the occurrences of the token op
RECURSIVE SplitTokens(_, _, _)
SplitTokens(ts, op, piece) ==
    IF ts = <<>> THEN <<piece>>
    ELSE IF ts[1] = op THEN <<piece>> \o SplitTokens(Tail(ts), op, <<>>)
    ELSE SplitTokens(Tail(ts), op, Append(piece, ts[1]))

\* truthiness of !...!literal
Truthy(unary) ==
    LET literal == unary[Len(unary)]
        nonZero == \E i \in 1..Len(literal) : literal[i] = "1"
    IN  IF (Len(unary) - 1) % 2 = 0 THEN nonZero ELSE ~nonZero

\* result ? 1 : 0 for an expression that parses: && binds tighter than ||
Value(ts) ==
    LET sums == SplitTokens(ts, <<"|", "|">>, <<>>)
    IN  IF \E i \in 1..Len(sums) :
              LET products == SplitTokens(sums[i], <<"&", "&">>, <<>>)
              IN  \A j \in 1..Len(products) : Truthy(products[j])
        THEN 1 ELSE 0

\* the string eval is given for row idx, as tokens
Evaluated(evaluable, variables, idx) ==
    Tokens(Substitute(evaluable, variables, idx, 1), <<>>)

\* BooleanParser.evaluate throws: eval raises a SyntaxError, which is
\* rethrown as 'Evaluation error: ...'
EvaluateThrows(evaluable, variables, idx) ==
    ~Parses(Evaluated(evaluable, variables, idx), TRUE)

\* BooleanParser.evaluate when it does not throw
evaluate(evaluable, variables, idx) == Value(Evaluated(evaluable, variables, idx))

---------------------------------------------------------------------------
(* TruthTableGenerator.generate *)

\* some row's evaluation throws, which ends the call
TableThrows(parsed) ==
    \E idx \in 0..(Pow2(Len(parsed.variables)) - 1) :
        EvaluateThrows(parsed.evaluable, parsed.variables, idx)

\* one output per row, in row order
Outputs(parsed) ==
    [r \in 1..Pow2(Len(parsed.variables)) |->
        evaluate(parsed.evaluable, parsed.variables, r - 1)]

\* the object generate returns (rows without their inputs map)
TableOf(parsed) ==
    LET numVars == Len(parsed.variables)
        out     == Outputs(parsed)
        indices == [r \in 1..Len(out) |-> r - 1]
    IN  [variables |-> parsed.variables,
         rows      |-> [r \in 1..Len(out) |->
                          [index |-> r - 1, output |-> out[r],
                           binary |-> ToBinary(r - 1, numVars)]],
         minterms  |-> SelectSeq(indices, LAMBDA i : out[i + 1] = 1),
         maxterms  |-> SelectSeq(indices, LAMBDA i : out[i + 1] # 1),
         numVars   |-> numVars]


---------------------------------------------------------------------------
(* TruthTableGenerator.generateFromOutputs.  The output values 0, 1 and    *)
(* 'X' are written "0", "1" and "X".                                       *)

\* a check that lets a list with too many outputs pass
OutputsThrowWhenShort(variables, outputs) == Len(outputs) < Pow2(Len(variables))

\* if (outputs.length !== numRows) throw
OutputsThrow(variables, outputs) == Len(outputs) # Pow2(Len(variables))

\* a test that looks at the output value only
IsDontCareRowByValue(outputs, dontCares, i) == outputs[i + 1] = "X"

\* output === 'X' || dontCares.includes(i), for row i
IsDontCareRow(outputs, dontCares, i) == outputs[i + 1] = "X" \/ Includes(dontCares, i)

\* the object generateFromOutputs returns (rows without their inputs map)
generateFromOutputs(variables, outputs, dontCares) ==
    LET numVars == Len(variables)
        numRows == Pow2(numVars)
        indices == [r \in 1..numRows |-> r - 1]
        out(i)  == IF IsDontCareRow(outputs, dontCares, i) THEN "X"
                   ELSE IF outputs[i + 1] = "0" THEN "0" ELSE "1"
    IN  [variables |-> variables,
         rows      |-> [r \in 1..numRows |->
                          [index |-> r - 1, output |-> out(r - 1),
                           binary |-> ToBinary(r - 1, numVars),
                           isDontCare |-> out(r - 1) = "X"]],
         minterms  |-> SelectSeq(indices, LAMBDA i : out(i) = "1"),
         maxterms  |-> SelectSeq(indices, LAMBDA i : out(i) = "0"),
         dontCares |-> SelectSeq(indices, LAMBDA i : out(i) = "X"),
         numVars   |-> numVars]

---------------------------------------------------------------------------
(* BooleanLogicApp.handleGenerateFromExpression *)

\* this.currentData and the message shown, after the handler has run on
\* the text of the input field
ExpressionOutcome(data, input) ==
    LET expression == Trim(input)
        parsed     == parse(expression)
        withParsed == [data EXCEPT !.parsed = parsed]
        numVars    == Len(parsed.variables)
    IN  IF expression = <<>>
        THEN [data |-> data, error |-> "Please enter a Boolean expression"]
        ELSE IF numVars < 2
        THEN [data |-> withParsed, error |-> "Expression must have at least 2 variables"]
        ELSE IF numVars > 6
        THEN [data |-> withParsed, error |-> "K-map supports maximum 6 variables"]
        ELSE IF TableThrows(parsed)
        THEN [data |-> withParsed, error |-> "Error: Evaluation error"]
        ELSE LET table == TableOf(parsed)
                 withTable == [withParsed EXCEPT !.truthTable = table]
             IN  IF GenerateThrows(table)
                 THEN [data |-> withTable, error |-> "Error: K-map supports 2-6 variables only"]
                 ELSE LET k == generate(table)
                      IN  [data  |-> [withTable EXCEPT !.kmap = k, !.simplified = simplify(k)],
                           error |-> ""]

\* the record of a successful generation: the mode it ran in and, per
\* output, the truth table, K-map and simplification it displayed
LatestOf(mode, outputs) ==
    [mode    |-> mode,
     outputs |-> [i \in 1..Len(outputs) |->
                    [truthTable |-> outputs[i].truthTable,
                     kmap       |-> outputs[i].kmap,
                     simplified |-> outputs[i].simplified]]]

---------------------------------------------------------------------------
(* One call of a generator or of the expression handler *)

\* literals in an expression of the model
MaxLiterals == 3

\* variables and outputs of a generateFromOutputs call
MaxTableVars == 2
MaxOutputs == 5

\* the letters of the short expressions
ExprLetters == {"A", "B"}

\* what stands between two literals: +, *, nothing, or + with blanks
ExprOperators == {<<"+">>, <<"*">>, <<>>, <<" ", "+", " ">>}

\* the expressions of k literals: a letter, with or without ', per literal
RECURSIVE ExprOf(_)
ExprOf(k) ==
    IF k = 0 THEN {<<>>}
    ELSE LET lits == {<<l>> \o q : l \in ExprLetters, q \in {<<>>, <<"'">>}}
         IN  IF k = 1 THEN lits
             ELSE {e \o o \o t : e \in ExprOf(k - 1), o \in ExprOperators, t \in lits}

\* the first k letters joined by one operator
LongExpr(k, o) == Join([i \in 1..k |-> <<VarNames[i]>>], o)

Expressions ==
    {<<" ">>}
    \cup UNION {ExprOf(k) : k \in 0..MaxLiterals}
    \cup {LongExpr(k, o) : k \in 1..(MaxGridVars + 1), o \in ExprOperators}

RECURSIVE SeqsUpTo(_, _)
SeqsUpTo(S, k) ==
    IF k = 0 THEN {<<>>}
    ELSE LET P == SeqsUpTo(S, k - 1)
         IN  P \cup {Append(q, x) : q \in {p \in P : Len(p) = k - 1}, x \in S}

\* the arguments of a generateFromOutputs call
TableRequest(n, o, D) ==
    [op        |-> "outputs",
     variables |-> SubSeq(VarNames, 1, n),
     outputs   |-> o,
     dontCares |-> SortedSeq(D)]

InitApp ==
    /\ NoCall
    /\ instance = NewSimplifier
    /\ calls = <<>>
    /\ \/ \E n \in 0..(MaxGridVars + 1) :
            \E S \in SubsetsUpTo(GridDomain(n), MaxMarked) :
              \E D \in SubsetsUpTo(GridDomain(n) \cap {0, Pow2(n) - 1}, 1) :
                 request = KMapRequest(n, S, D)
       \/ \E e \in Expressions :
            request = [op |-> "expression", expression |-> e]
       \/ \E n \in 0..MaxTableVars :
            \E o \in SeqsUpTo({"0", "1", "X"}, MaxOutputs) :
              \E D \in SubsetsUpTo(0..(MaxOutputs - 1), 1) :
                 request = TableRequest(n, o, D)
    /\ truthTable = <<>>
    /\ error = ""
    /\ currentData = NewData
    /\ NewApp

\* kmapGen.generate(request)
Generate ==
    /\ pc = "idle"
    /\ request.op = "generate"
    /\ IF GenerateThrows(request)
       THEN /\ error' = "K-map supports 2-6 variables only"
            /\ kmap' = kmap
       ELSE /\ error' = ""
            /\ kmap' = generate(request)
    /\ pc' = "done"
    /\ UNCHANGED <<terms, primeImplicants, iteration, essentialPIs, additionalPIs,
                   uncovered, result, instance, calls, request, truthTable, currentData, app>>

\* truthTableGen.generateFromOutputs(variables, outputs, dontCares)
GenerateFromOutputs ==
    /\ pc = "idle"
    /\ request.op = "outputs"
    /\ IF OutputsThrow(request.variables, request.outputs)
       THEN /\ error' = "Expected numRows output values"
            /\ truthTable' = truthTable
       ELSE /\ error' = ""
            /\ truthTable' = generateFromOutputs(request.variables, request.outputs,
                                                 request.dontCares)
    /\ pc' = "done"
    /\ UNCHANGED <<kmap, terms, primeImplicants, iteration, essentialPIs, additionalPIs,
                   uncovered, result, instance, calls, request, currentData, app>>

HandleGenerateFromExpression ==
    /\ pc = "idle"
    /\ request.op = "expression"
    /\ LET o == ExpressionOutcome(currentData, request.expression)
       IN  /\ currentData' = o.data
           /\ error' = o.error
           /\ generated' = IF o.error = "" THEN LatestOf("expression", <<o.data>>)
                            ELSE generated
    /\ pc' = "done"
    /\ UNCHANGED <<kmap, terms, primeImplicants, iteration, essentialPIs, additionalPIs,
                   uncovered, result, instance, calls, request, truthTable>>
    /\ UNCHANGED <<currentMode, truthTableInputData, multiOutputData, download>>

NextApp ==
    \/ Generate
    \/ GenerateFromOutputs
    \/ HandleGenerateFromExpression

SpecApp == InitApp /\ [][NextApp]_vars


---------------------------------------------------------------------------
(* Rejected requests *)

\* the number of different letters in a text
LetterCount(text) == Cardinality({c \in Range(text) : IsLetter(c)})

\* C13: a variable count outside [2, 6] is rejected before any grid or
\* result exists: KarnaughMap.generate throws its error and returns no
\* K-map, and the expression handler shows an error and leaves
\* currentData without truth table, K-map and simplification.
C13_VariableCountRejected ==
    pc = "done" =>
      /\ (request.op = "generate" /\ request.numVars \notin 2..6) =>
            (error = "K-map supports 2-6 variables only" /\ kmap = <<>>)
      /\ (request.op = "expression" /\ Trim(request.expression) # <<>>
            /\ LetterCount(request.expression) \notin 2..6) =>
            /\ error = (IF LetterCount(request.expression) < 2
                        THEN "Expression must have at least 2 variables"
                        ELSE "K-map supports maximum 6 variables")
            /\ currentData.truthTable = <<>>
            /\ currentData.kmap = <<>>
            /\ currentData.simplified = <<>>

\* the handler has run on an expression over seven variables
C13_Witness ==
    /\ pc = "done"
    /\ request.op = "expression"
    /\ LetterCount(request.expression) = 7
    /\ error = "K-map supports maximum 6 variables"


\* C14: generateFromOutputs throws, and returns no truth table, whenever
\* the number of outputs differs from 2^(number of variables), and when
\* the two agree it returns a truth table without throwing.
C14_OutputLengthChecked ==
    (pc = "done" /\ request.op = "outputs") =>
       IF Len(request.outputs) = Pow2(Len(request.variables))
       THEN error = "" /\ truthTable # <<>>
       ELSE error # "" /\ truthTable = <<>>

\* five outputs for the four rows of two variables
C14_Witness ==
    /\ pc = "done"
    /\ request.op = "outputs"
    /\ Len(request.variables) = 2
    /\ Len(request.outputs) = 5
    /\ error # ""


---------------------------------------------------------------------------
(* findEssentialPrimeImplicants called with any implicant list *)

\* implicants in a supplied list
MaxSupplied == 2

\* an implicant object for the cube c
Implicant(c) == [binary |-> c, minterms |-> SortedSeq(CubeCover(c)), used |-> FALSE]

\* the call findEssentialPrimeImplicants(primeImplicants, kmap.minterms)
\* is about to run on a list of implicants over two variables
InitCover ==
    /\ \E S \in SUBSET Domain(MinVars) : kmap = MakeKMap(MinVars, S, {})
    /\ \E P \in SeqsUpTo(Cubes(MinVars), MaxSupplied) :
          primeImplicants = [i \in 1..Len(P) |-> Implicant(P[i])]
    /\ pc = "cover"
    /\ terms = <<>>
    /\ iteration = 0
    /\ essentialPIs = <<>>
    /\ additionalPIs = <<>>
    /\ uncovered = <<>>
    /\ result = <<>>
    /\ instance = NewSimplifier
    /\ calls = <<>>
    /\ request = <<>>
    /\ truthTable = <<>>
    /\ error = ""
    /\ currentData = NewData
    /\ NewApp

NextCover ==
    \/ FindEssential
    \/ GreedyStep
    \/ SimplifyReturn

SpecCover == InitCover /\ [][NextCover]_vars

\* the required minterms that no supplied implicant covers
Uncoverable == {m \in Range(kmap.minterms) : m \notin CoveredBy(primeImplicants)}

\* C15: when some required minterm is covered by no supplied implicant,
\* the coverage solver ends with an internal-consistency error and returns
\* no solution.
C15_UncoverableRaisesError ==
    (pc = "done" /\ Uncoverable # {}) => (error # "" /\ result = <<>>)


---------------------------------------------------------------------------
(* The grid KarnaughMap.generate returns *)

\* a generate call has returned a K-map
Generated == pc = "done" /\ request.op = "generate" /\ error = ""

\* the number of 4x4 maps of a K-map object: dimensions.maps where the
\* grid is a list of maps, 1 where it is a single grid
MapsOf(k) == IF "maps" \in DOMAIN k.dimensions THEN k.dimensions.maps ELSE 1

\* the cell (map, row, col) of the grid arrays, counted from 0
GridAt(k, cell) ==
    IF "maps" \in DOMAIN k.dimensions
    THEN k.grid[cell.map + 1][cell.row + 1][cell.col + 1]
    ELSE k.grid[cell.row + 1][cell.col + 1]

\* all cells the reported dimensions speak of
CellsIn(k) ==
    {[map |-> g, row |-> r, col |-> c] :
        g \in 0..(MapsOf(k) - 1),
        r \in 0..(k.dimensions.rows - 1),
        c \in 0..(k.dimensions.cols - 1)}

\* the cells holding the value v
CellsWith(k, v) == {cell \in CellsIn(k) : GridAt(k, cell) = v}

\* x and y are neighbours among d positions in a ring
RingNeighbours(x, y, d) ==
    x # y /\ ((x - y) \in {1, -1} \/ (x - y) \in {d - 1, 1 - d})

\* same map and neighbours in a row or a column, or the same place in
\* neighbouring maps
Adjacent(k, p, q) ==
    \/ /\ p.map = q.map
       /\ \/ p.row = q.row /\ RingNeighbours(p.col, q.col, k.dimensions.cols)
          \/ p.col = q.col /\ RingNeighbours(p.row, q.row, k.dimensions.rows)
    \/ /\ p.row = q.row
       /\ p.col = q.col
       /\ RingNeighbours(p.map, q.map, MapsOf(k))

\* a and b differ in exactly one of their n bits
OneBitApart(a, b, n) ==
    Cardinality({i \in 1..n : BitOf(a, n, i) # BitOf(b, n, i)}) = 1

\* C16: for 2 to 6 variables, two indices that differ in exactly one bit
\* are placed in the same map in cells that are neighbours by row or by
\* column (first and last being neighbours too), or at the same row and
\* column of two neighbouring maps (the four maps of 6 variables forming
\* a ring).
C16_OneBitApartAdjacent ==
    (/\ Generated
     /\ Len(request.minterms) = 2
     /\ Len(request.dontCares) = 0
     /\ OneBitApart(request.minterms[1], request.minterms[2], request.numVars)) =>
        LET cells == CellsWith(kmap, "1")
        IN  /\ Cardinality(cells) = 2
            /\ \A p, q \in cells : p # q => Adjacent(kmap, p, q)

\* indices 0 and 32 over six variables: first and last of the four maps
C16_Witness ==
    /\ Generated
    /\ request.numVars = 6
    /\ request.minterms = <<0, 32>>
    /\ request.dontCares = <<>>
    /\ CellsWith(kmap, "1") = {[map |-> 0, row |-> 0, col |-> 0],
                               [map |-> 3, row |-> 0, col |-> 0]}


\* g is a grid of the given numbers of rows and columns
IsGrid(g, rows, cols) ==
    /\ DOMAIN g = 1..rows
    /\ \A r \in 1..rows : DOMAIN g[r] = 1..cols

\* the indices of a list whose leading bits (all but the last four, which
\* give row and column) have the value v
SelectedBy(indices, v) ==
    {m \in {indices[i] : i \in 1..Len(indices)} : m \div 16 = v}

\* the value of the leading bits that the label of map number g names:
\* the digits after "=" in mapLabels, read in base 2
LabelValue(k, g) ==
    LET label == k.mapLabels[g + 1]
        from  == CHOOSE i \in 1..Len(label) : label[i] = "="
        digit(i) == IF label[i] = "1" THEN 1 ELSE 0
    IN  IF Len(label) - from = 1
        THEN digit(from + 1)
        ELSE 2 * digit(from + 1) + digit(from + 2)

\* the marked (non-"0") cells of map number g
MarkedIn(k, g) == {cell \in CellsIn(k) : cell.map = g /\ GridAt(k, cell) # "0"}

\* C17: generate returns one 2x2 grid for 2 variables, one grid of 2 rows
\* and 4 columns for 3, one 4x4 grid for 4, two 4x4 maps for 5, the map
\* chosen by the first variable, and four 4x4 maps for 6, the map chosen by
\* the first two variables; dimensions reports the sizes of the arrays.
C17_GridShape ==
    Generated =>
        LET n == request.numVars
            d == kmap.dimensions
            marked == request.minterms \o request.dontCares
        IN  /\ n = 2 => d = [rows |-> 2, cols |-> 2]
            /\ n = 3 => d = [rows |-> 2, cols |-> 4]
            /\ n = 4 => d = [rows |-> 4, cols |-> 4]
            /\ n = 5 => d = [rows |-> 4, cols |-> 4, maps |-> 2]
            /\ n = 6 => d = [rows |-> 4, cols |-> 4, maps |-> 4]
            /\ IF n <= 4
               THEN IsGrid(kmap.grid, d.rows, d.cols)
               ELSE /\ DOMAIN kmap.grid = 1..d.maps
                    /\ \A g \in 1..d.maps : IsGrid(kmap.grid[g], d.rows, d.cols)
            /\ n >= 5 =>
                   /\ {LabelValue(kmap, g) : g \in 0..(d.maps - 1)} = 0..(d.maps - 1)
                   /\ \A g \in 0..(d.maps - 1) :
                          Cardinality(MarkedIn(kmap, g)) =
                              Cardinality(SelectedBy(marked, LabelValue(kmap, g)))

\* five variables, index 3 (first variable 0) and index 20 (first variable
\* 1): one cell marked in each of the two maps
C17_Witness ==
    /\ Generated
    /\ request.numVars = 5
    /\ request.minterms = <<3, 20>>
    /\ Len(kmap.grid) = 2
    /\ Cardinality(MarkedIn(kmap, 0)) = 1
    /\ Cardinality(MarkedIn(kmap, 1)) = 1


\* the place, in the reflected Gray-code sequence of the width to - from + 1,
\* of the word made of bits from..to of the n-bit index m: the number i
\* whose Gray word i XOR (i >> 1) is that word
GrayPosition(m, n, from, to) ==
    LET w == to - from + 1
    IN  CHOOSE i \in 0..(Pow2(w) - 1) :
            \A p \in 1..w :
                BitOf(m, n, from + p - 1) =
                    (BitOf(i, w, p) + (IF p = 1 THEN 0 ELSE BitOf(i, w, p - 1))) % 2

\* the cell of index m when the first rowBits bits give the row and the
\* others the column
GrayCell(m, n, rowBits) ==
    [map |-> 0,
     row |-> GrayPosition(m, n, 1, rowBits),
     col |-> GrayPosition(m, n, rowBits + 1, n)]

\* a K-map over at most four variables with a single index marked
SingleMarked ==
    /\ Generated
    /\ request.numVars <= 4
    /\ Len(request.minterms) = 1
    /\ Len(request.dontCares) = 0

\* C18 as stated: up to four variables, the row of an index is the
\* Gray-code position of its first ceil(n/2) bits and the column that of
\* the remaining bits.
C18_RowFromCeilHalf ==
    SingleMarked =>
        CellsWith(kmap, "1") =
            {GrayCell(request.minterms[1], request.numVars, (request.numVars + 1) \div 2)}

\* C18: up to four variables, the row of an index is the Gray-code position
\* of its first floor(n/2) bits and the column that of the remaining bits
\* (three variables: one row bit, two column bits).
C18_RowFromFloorHalf ==
    SingleMarked =>
        CellsWith(kmap, "1") =
            {GrayCell(request.minterms[1], request.numVars, request.numVars \div 2)}

\* index 6 = 110 over three variables: row 1, column 3 (word 10)
C18_Witness ==
    /\ SingleMarked
    /\ request.numVars = 3
    /\ request.minterms = <<6>>
    /\ CellsWith(kmap, "1") = {[map |-> 0, row |-> 1, col |-> 3]}


---------------------------------------------------------------------------
(* The documented examples *)

\* the text "A + B"
AOrB == <<"A", " ", "+", " ", "B">>

\* C19: for the expression A + B the chain parse, truth table, K-map,
\* simplify ends without an error, with variables [A, B], minterms
\* 1, 2, 3, the SOP "A + B" and the POS "(A + B)".
C19_AOrBExample ==
    (pc = "done" /\ request.op = "expression" /\ request.expression = AOrB) =>
        /\ error = ""
        /\ currentData.parsed.variables = <<"A", "B">>
        /\ currentData.truthTable.minterms = <<1, 2, 3>>
        /\ currentData.simplified.sop = AOrB
        /\ currentData.simplified.pos = <<"(">> \o AOrB \o <<")">>


\* the indices on which variable number v has the value b
HalfOf(v, b) == {idx \in AllIndices : BitOf(idx, kmap.numVars, v) = b}

\* the literal for "variable number v has the value b"
LiteralOf(v, b) == <<kmap.variables[v]>> \o (IF b = 0 THEN <<"'">> ELSE <<>>)

\* C20 as stated: when the required set is exactly the set of indices on
\* which one variable has a fixed value, the returned SOP is that single
\* literal, one product term.
C20_SingleLiteralAlways ==
    pc = "done" =>
        \A v \in 1..kmap.numVars : \A b \in {0, 1} :
            Required = HalfOf(v, b) =>
                /\ result.sop = LiteralOf(v, b)
                /\ Len(result.essentialPrimeImplicants) = 1


\* C20: when the required set is exactly the set of indices on which one
\* variable has a fixed value, and the don't-cares are not all the other
\* indices, the returned SOP is that single literal, one product term.
C20_SingleLiteral ==
    (pc = "done" /\ DontCare # AllIndices \ Required) =>
        \A v \in 1..kmap.numVars : \A b \in {0, 1} :
            Required = HalfOf(v, b) =>
                /\ result.sop = LiteralOf(v, b)
                /\ Len(result.essentialPrimeImplicants) = 1

\* four variables, required 0..7 (A is 0), no don't-care: SOP "A'"
C20_Witness ==
    /\ pc = "done"
    /\ kmap.numVars = 4
    /\ kmap.minterms = <<0, 1, 2, 3, 4, 5, 6, 7>>
    /\ kmap.dontCares = <<>>
    /\ result.sop = <<"A", "'">>
    /\ Len(result.essentialPrimeImplicants) = 1


---------------------------------------------------------------------------
(* Simplifying a simplified function *)

\* the truth table read off the returned SOP: the same variables, the
\* indices on which the SOP string evaluates to true as minterms
TableOfSop ==
    [kmap EXCEPT !.minterms = SortedSeq({idx \in AllIndices : SopAt(idx)}),
                 !.dontCares = <<>>]

\* the patterns of a list of implicants, in the order of the list
PatternList(pis) == [i \in 1..Len(pis) |-> pis[i].binary]

\* C21: with no don't-care, simplify called on the truth table of the SOP
\* it returned gives the same selected implicants, pattern by pattern in
\* the same order, and the same SOP string.
C21_SimplifyIdempotent ==
    (pc = "done" /\ kmap.dontCares = <<>>) =>
        LET again == simplify(TableOfSop)
        IN  /\ again.sop = result.sop
            /\ PatternList(again.essentialPrimeImplicants) =
                   PatternList(result.essentialPrimeImplicants)

\* three variables, minterms 0, 1, 2, 5: a three-term SOP that evaluates
\* back to the same four indices
C21_Witness ==
    /\ pc = "done"
    /\ kmap.numVars = 3
    /\ kmap.minterms = <<0, 1, 2, 5>>
    /\ kmap.dontCares = <<>>
    /\ Len(result.essentialPrimeImplicants) = 3
    /\ TableOfSop.minterms = <<0, 1, 2, 5>>
    /\ simplify(TableOfSop).sop = result.sop


---------------------------------------------------------------------------
(* The application: mode switches, truth-table input, Generate Results and *)
(* Export, in any order.  pc is "exported" when handleExport ran last.     *)

\* output columns of a truth-table input
MaxOutputColumns == 2

\* default output names: String.fromCharCode(70 + i)
OutputNames == <<"F", "G", "H", "I">>

\* the states of the buttons of one output column over two variables
Columns == {<<"0", "1", "0", "1">>, <<"1", "X", "0", "0">>}

\* the texts typed into the expression field
SessionExpressions == {<<"A", "*", "B">>, AOrB}

\* outputs and dontCares as handleGenerateFromTruthTable collects them
\* from a column of buttons, then generateFromOutputs
ColumnTable(variables, column) ==
    generateFromOutputs(variables, column,
                        SelectSeq([i \in 1..Len(column) |-> i - 1],
                                  LAMBDA i : column[i + 1] = "X"))

\* kmapGen.generate and simplifier.simplify on a truth table, as both
\* handlers call them
ResultsOf(table) ==
    LET k == generate(table)
    IN  [truthTable |-> table, kmap |-> k, simplified |-> simplify(k)]

\* handleGenerateFromExpression up to the truth table: the parsed
\* expression, the message shown and the table (<<>> when none is made)
ExpressionTable(input) ==
    LET expression == Trim(input)
        parsed     == parse(expression)
        numVars    == Len(parsed.variables)
    IN  IF expression = <<>>
        THEN [parsed |-> <<>>, table |-> <<>>, error |-> "Please enter a Boolean expression"]
        ELSE IF numVars < 2
        THEN [parsed |-> parsed, table |-> <<>>,
              error |-> "Expression must have at least 2 variables"]
        ELSE IF numVars > 6
        THEN [parsed |-> parsed, table |-> <<>>, error |-> "K-map supports maximum 6 variables"]
        ELSE IF TableThrows(parsed)
        THEN [parsed |-> parsed, table |-> <<>>, error |-> "Error: Evaluation error"]
        ELSE [parsed |-> parsed, table |-> TableOf(parsed), error |-> ""]

\* switchMode(mode)
SwitchMode ==
    /\ \E mode \in {"expression", "truthtable"} : currentMode' = mode
    /\ pc' = "idle"
    /\ UNCHANGED <<kmap, terms, primeImplicants, iteration, essentialPIs, additionalPIs,
                   uncovered, result, instance, calls, request, truthTable, error,
                   currentData, truthTableInputData, multiOutputData, download, generated>>

\* createTruthTableInput(): the selected numbers of variables and outputs
\* and the names typed
CreateTruthTableInput ==
    /\ \E numOutputs \in 1..MaxOutputColumns :
         \E typed \in {MinVars - 1, MinVars} :
            LET variables == SubSeq(VarNames, 1, typed)
            IN  IF Len(variables) # MinVars
                THEN /\ error' = "Please enter exactly 2 variable names"
                     /\ UNCHANGED truthTableInputData
                ELSE /\ truthTableInputData' =
                            [variables   |-> variables,
                             numVars     |-> MinVars,
                             outputNames |-> SubSeq(OutputNames, 1, numOutputs),
                             numOutputs  |-> numOutputs]
                     /\ UNCHANGED error
    /\ pc' = "idle"
    /\ UNCHANGED <<kmap, terms, primeImplicants, iteration, essentialPIs, additionalPIs,
                   uncovered, result, instance, calls, request, truthTable,
                   currentData, currentMode, multiOutputData, download, generated>>

\* what Generate Results works on: in expression mode the text of the
\* field, in truth-table mode the states of the buttons, one column per
\* output (<<>> when no table has been created)
SessionInputs ==
    IF currentMode = "expression"
    THEN {[expression |-> e] : e \in SessionExpressions}
    ELSE IF truthTableInputData = <<>> THEN {<<>>}
    ELSE {[columns |-> c] : c \in [1..truthTableInputData.numOutputs -> Columns]}

\* handleGenerate(): handleGenerateFromExpression() in expression mode,
\* handleGenerateFromTruthTable() otherwise
HandleGenerate ==
    /\ \E input \in SessionInputs :
       \E made \in {IF currentMode = "expression"
                    THEN ExpressionTable(input.expression)
                    ELSE [parsed |-> <<>>, table |-> <<>>,
                          error |-> IF truthTableInputData = <<>>
                                    THEN "Please create a truth table first"
                                    ELSE ""]} :
       \E tables \in {IF made.error # "" THEN <<>>
                      ELSE IF currentMode = "expression" THEN <<made.table>>
                      ELSE [i \in 1..truthTableInputData.numOutputs |->
                               ColumnTable(truthTableInputData.variables,
                                           input.columns[i])]} :
       \E outs \in {[i \in 1..Len(tables) |-> ResultsOf(tables[i])]} :
         LET parsed == IF made.parsed # <<>> THEN made.parsed ELSE currentData.parsed
         IN  /\ error' = made.error
             /\ IF made.error # ""
                THEN /\ currentData' = [currentData EXCEPT !.parsed = parsed]
                     /\ UNCHANGED <<multiOutputData, generated>>
                ELSE /\ generated' = LatestOf(currentMode, outs)
                     /\ IF currentMode = "expression"
                        THEN /\ currentData' = outs[1] @@ [parsed |-> parsed]
                             /\ UNCHANGED multiOutputData
                        ELSE IF truthTableInputData.numOutputs = 1
                        THEN /\ currentData' = outs[1] @@ [parsed |-> parsed]
                             /\ multiOutputData' = <<>>
                        ELSE /\ multiOutputData' =
                                   [i \in 1..Len(outs) |->
                                       outs[i] @@
                                       [name |-> truthTableInputData.outputNames[i]]]
                             /\ UNCHANGED currentData
    /\ pc' = "idle"
    /\ UNCHANGED <<kmap, terms, primeImplicants, iteration, essentialPIs, additionalPIs,
                   uncovered, result, instance, calls, request, truthTable,
                   currentMode, truthTableInputData, download>>

\* prepareExportData throws: a property of null is read
ExportThrows(data) ==
    data.parsed = <<>> \/ data.kmap = <<>> \/ data.simplified = <<>>

\* prepareExportData() (without the csv and text renderings of the table
\* and without the timestamp)
prepareExportData(data) ==
    [expression |-> data.parsed.original,
     variables  |-> data.parsed.variables,
     truthTable |-> [minterms |-> data.truthTable.minterms,
                     maxterms |-> data.truthTable.maxterms],
     kmap       |-> [variables  |-> data.kmap.variables,
                     minterms   |-> data.kmap.minterms,
                     dimensions |-> data.kmap.dimensions],
     simplified |-> [sop |-> data.simplified.sop,
                     pos |-> data.simplified.pos,
                     primeImplicants |->
                        [i \in 1..Len(data.simplified.primeImplicants) |->
                            [binary   |-> data.simplified.primeImplicants[i].binary,
                             minterms |-> data.simplified.primeImplicants[i].minterms]]]]

\* handleExport()
HandleExport ==
    /\ IF currentData.truthTable = <<>>
       THEN /\ error' = "No data to export. Generate results first."
            /\ UNCHANGED download
       ELSE IF ExportThrows(currentData)
       THEN /\ error' = "Export failed"
            /\ UNCHANGED download
       ELSE /\ download' = prepareExportData(currentData)
            /\ error' = ""
    /\ pc' = "exported"
    /\ UNCHANGED <<kmap, terms, primeImplicants, iteration, essentialPIs, additionalPIs,
                   uncovered, result, instance, calls, request, truthTable,
                   currentData, currentMode, truthTableInputData, multiOutputData,
                   generated>>

InitExport ==
    /\ NoCall
    /\ instance = NewSimplifier
    /\ calls = <<>>
    /\ request = <<>>
    /\ truthTable = <<>>
    /\ error = ""
    /\ currentData = NewData
    /\ NewApp

NextExport == SwitchMode \/ CreateTruthTableInput \/ HandleGenerate \/ HandleExport

SpecExport == InitExport /\ [][NextExport]_vars


\* the downloaded data d is built from the output o of a generation
BuiltFrom(d, o) ==
    /\ d.truthTable.minterms = o.truthTable.minterms
    /\ d.truthTable.maxterms = o.truthTable.maxterms
    /\ d.kmap.variables = o.kmap.variables
    /\ d.kmap.minterms = o.kmap.minterms
    /\ d.kmap.dimensions = o.kmap.dimensions
    /\ d.simplified.sop = o.simplified.sop
    /\ d.simplified.pos = o.simplified.pos
    /\ PatternList(d.simplified.primeImplicants) =
           PatternList(o.simplified.primeImplicants)

\* C22: once Generate Results has succeeded (in expression mode, or in
\* truth-table mode with one or with several outputs), whatever mode
\* switches and generations came before, handleExport ends without an
\* error message and the file it downloads is built from the latest
\* successful generation.
C22_ExportsLatestGeneration ==
    (pc = "exported" /\ generated # <<>>) =>
        /\ error = ""
        /\ \E i \in 1..Len(generated.outputs) : BuiltFrom(download, generated.outputs[i])


---------------------------------------------------------------------------
(* The passes of quineMcCluskey *)

\* every term of the list has exactly k '-' positions
AllWithDashes(ts, k) == \A i \in 1..Len(ts) : Dashes(ts[i].binary) = k

\* C23: quineMcCluskey makes at most n passes over n variables: a pass
\* starts only while fewer than n have produced cubes, the cubes pass
\* number k (from 0) works on all have k '-' positions, those it produces
\* have k + 1, and the loop is left before n passes only when the last
\* pass produced no cube.
C23_AtMostNPasses ==
    /\ pc = "loop" =>
          /\ iteration < kmap.numVars
          /\ Len(terms) > 0
          /\ AllWithDashes(terms, iteration)
          /\ AllWithDashes(MergePass(terms).newTerms, iteration + 1)
    /\ pc = "rest" =>
          /\ iteration <= kmap.numVars
          /\ AllWithDashes(terms, iteration)
          /\ iteration < kmap.numVars => Len(MergePass(terms).newTerms) = 0

\* two variables, all four indices given (two of them as don't-cares): the
\* loop ends after two passes with the cube "--"
C23_Witness ==
    /\ pc = "rest"
    /\ kmap.numVars = 2
    /\ iteration = 2
    /\ Len(terms) = 1
    /\ terms[1].binary = <<"-", "-">>


---------------------------------------------------------------------------
(* One call of a method with any arguments: combineBinary, convertToSOP    *)

\* length of the binary strings given to combineBinary
MaxCubeLen == 3

\* simplifier.combineBinary(request.bin1, request.bin2); null is <<>>
CombineBinary ==
    /\ pc = "idle"
    /\ request.op = "combineBinary"
    /\ result' = combineBinary(request.bin1, request.bin2)
    /\ pc' = "done"
    /\ UNCHANGED <<kmap, terms, primeImplicants, iteration, essentialPIs, additionalPIs,
                   uncovered>>
    /\ UNCHANGED others

\* simplifier.convertToSOP(request.primeImplicants, request.variables)
ConvertToSOP ==
    /\ pc = "idle"
    /\ request.op = "convertToSOP"
    /\ result' = convertToSOP(request.primeImplicants, request.variables)
    /\ pc' = "done"
    /\ UNCHANGED <<kmap, terms, primeImplicants, iteration, essentialPIs, additionalPIs,
                   uncovered>>
    /\ UNCHANGED others

InitCall ==
    /\ NoCall
    /\ instance = NewSimplifier
    /\ calls = <<>>
    /\ \/ \E n \in 1..MaxCubeLen :
            \E a \in Cubes(n) : \E b \in Cubes(n) :
               request = [op |-> "combineBinary", bin1 |-> a, bin2 |-> b]
       \/ \E n \in 1..MaxCubeLen :
            \E cubes \in SeqsUpTo(Cubes(n), MaxSupplied) :
               request = [op |-> "convertToSOP",
                          primeImplicants |-> [k \in 1..Len(cubes) |-> Implicant(cubes[k])],
                          variables |-> SubSeq(VarNames, 1, n)]
    /\ truthTable = <<>>
    /\ error = ""
    /\ currentData = NewData
    /\ NewApp

NextCall == CombineBinary \/ ConvertToSOP

SpecCall == InitCall /\ [][NextCall]_vars

\* the positions where two strings of equal length differ
Differences(a, b) == {i \in 1..Len(a) : a[i] # b[i]}

\* C24: combineBinary(a, b) on cubes of equal length returns a cube exactly
\* when a and b differ in one position only, with 0 in one and 1 in the
\* other; the cube is a with '-' at that position, and it is also what
\* combineBinary(b, a) returns; in every other case both return null.
C24_CombineBinary ==
    (pc = "done" /\ request.op = "combineBinary") =>
        LET a == request.bin1
            b == request.bin2
            mergeable == /\ Cardinality(Differences(a, b)) = 1
                         /\ \A i \in Differences(a, b) : {a[i], b[i]} = {"0", "1"}
        IN  /\ (result # <<>>) <=> mergeable
            /\ mergeable =>
                  \E i \in Differences(a, b) : result = [a EXCEPT ![i] = "-"]
            /\ result = combineBinary(b, a)

\* '1-0' and '1-1' combine to '1--'
C24_Witness ==
    /\ pc = "done"
    /\ request.op = "combineBinary"
    /\ request.bin1 = <<"1", "-", "0">>
    /\ request.bin2 = <<"1", "-", "1">>
    /\ result = <<"1", "-", "-">>


---------------------------------------------------------------------------
(* The minterms lists of the implicant records *)

\* a record whose minterms list holds, each once, exactly the indices its
\* binary string matches, all of them given to quineMcCluskey
CarriesItsCover(t) ==
    /\ Len(t.minterms) = Cardinality(Range(t.minterms))
    /\ Range(t.minterms) = CubeCover(t.binary)
    /\ Cardinality(Range(t.minterms)) = Pow2(Dashes(t.binary))
    /\ Range(t.minterms) \subseteq AllOnes

\* C25: every implicant record of quineMcCluskey, in the term list of a
\* pass or among the prime implicants, lists without repetition exactly
\* the 2^k indices its pattern with k '-' positions matches, and all of
\* them are required or don't-care indices of the call.
C25_RecordsCarryTheirCover ==
    /\ pc \in {"loop", "rest"} => \A i \in 1..Len(terms) : CarriesItsCover(terms[i])
    /\ pc = "cover" =>
          \A i \in 1..Len(primeImplicants) : CarriesItsCover(primeImplicants[i])

\* three variables, indices 0..3: the second pass has made 0-- with the
\* list 0, 1, 2, 3
C25_Witness ==
    /\ pc = "loop"
    /\ kmap.numVars = 3
    /\ iteration = 2
    /\ Len(terms) = 1
    /\ terms[1].binary = <<"0", "-", "-">>
    /\ Range(terms[1].minterms) = {0, 1, 2, 3}
    /\ Len(terms[1].minterms) = 4


\* what one position of a cube contributes to its product term
LiteralAt(c, v) ==
    IF c = "1" THEN <<v>> ELSE IF c = "0" THEN <<v, "'">> ELSE <<>>

\* the product term of a cube: its literals in position order, "1" if none
TermOf(cube, variables) ==
    LET literals == Join([i \in 1..Len(cube) |-> LiteralAt(cube[i], variables[i])], <<>>)
    IN  IF literals = <<>> THEN <<"1">> ELSE literals

\* C26: convertToSOP writes one product term per cube, in list order: the
\* variable name for a '1', the name followed by ' for a '0', nothing for
\* '-', "1" for a cube of '-' only; the terms are joined by " + "; an empty
\* list gives "0".
C26_SopRendering ==
    (pc = "done" /\ request.op = "convertToSOP") =>
        LET pis == request.primeImplicants
        IN  result = IF Len(pis) = 0 THEN <<"0">>
                     ELSE Join([k \in 1..Len(pis) |->
                                   TermOf(pis[k].binary, request.variables)],
                               <<" ", "+", " ">>)

\* the cubes 1-0 and --- over A, B, C give "AC' + 1"
C26_Witness ==
    /\ pc = "done"
    /\ request.op = "convertToSOP"
    /\ PatternList(request.primeImplicants) = << <<"1", "-", "0">>, <<"-", "-", "-">> >>
    /\ result = <<"A", "C", "'", " ", "+", " ", "1">>


---------------------------------------------------------------------------
(* The POS string of simplify *)

\* the indices that are neither required nor don't-care, ascending
MaxtermList == SortedSeq(AllIndices \ (Required \cup DontCare))

\* the sum term of an index: every variable, asserted where the bit is 0
\* and complemented where it is 1
SumOf(idx) ==
    <<"(">> \o
    Join([p \in 1..kmap.numVars |->
             IF BitOf(idx, kmap.numVars, p) = 0
             THEN <<kmap.variables[p]>>
             ELSE <<kmap.variables[p], "'">>],
         <<" ", "+", " ">>) \o
    <<")">>

\* the POS string is made of the sum terms of the maxterms, in order, and
\* denotes the function that is 0 exactly on the maxterms
PosOfMaxterms ==
    /\ result.pos = IF Len(MaxtermList) = 0 THEN <<"1">>
                    ELSE Join([k \in 1..Len(MaxtermList) |-> SumOf(MaxtermList[k])],
                              <<"·">>)
    /\ \A idx \in AllIndices : PosAt(idx) <=> ~Includes(MaxtermList, idx)

\* C27: the POS returned by simplify has one sum term per maxterm, each with
\* all n literals (asserted for bit 0, complemented for bit 1), so it is 0
\* exactly on the maxterms and 1 on every required and don't-care index;
\* with no maxterm it is "1".
C27_PosOfMaxterms == pc = "done" => PosOfMaxterms


---------------------------------------------------------------------------
(* The index lists of generateFromOutputs *)

\* strictly ascending
Ascending(s) == \A i \in 1..(Len(s) - 1) : s[i] < s[i + 1]

\* C28: for an outputs list of length 2^n and any dontCares list,
\* generateFromOutputs returns minterms, maxterms and dontCares that are
\* ascending, pairwise disjoint and together all of 0..2^n - 1; an index is
\* a don't-care iff its output is 'X' or it is in the dontCares argument
\* (even when its output is 0 or 1), otherwise a minterm iff its output is
\* truthy.
C28_IndexListsPartition ==
    (pc = "done" /\ request.op = "outputs" /\ error = "") =>
        LET t    == truthTable
            rows == 0..(Pow2(Len(request.variables)) - 1)
            given(i) == request.outputs[i + 1]
        IN  /\ Ascending(t.minterms) /\ Ascending(t.maxterms) /\ Ascending(t.dontCares)
            /\ Range(t.minterms) \cap Range(t.maxterms) = {}
            /\ Range(t.minterms) \cap Range(t.dontCares) = {}
            /\ Range(t.maxterms) \cap Range(t.dontCares) = {}
            /\ Range(t.minterms) \cup Range(t.maxterms) \cup Range(t.dontCares) = rows
            /\ \A i \in rows :
                  /\ Includes(t.dontCares, i) <=>
                        (given(i) = "X" \/ Includes(request.dontCares, i))
                  /\ Includes(t.minterms, i) <=>
                        (~Includes(t.dontCares, i) /\ given(i) = "1")

\* outputs 1, 1, 0, X with index 0 in dontCares: index 0 is a don't-care
\* although its output is 1
C28_Witness ==
    /\ pc = "done"
    /\ request.op = "outputs"
    /\ error = ""
    /\ request.outputs = <<"1", "1", "0", "X">>
    /\ request.dontCares = <<0>>
    /\ truthTable.minterms = <<1>>
    /\ truthTable.maxterms = <<2>>
    /\ truthTable.dontCares = <<0, 3>>


---------------------------------------------------------------------------
(* Reading the grid back *)

\* the index getMintermFromPosition gives for a cell of a K-map of n variables
PositionIndex(n, cell) == getMintermFromPosition(cell.row, cell.col, n, cell.map)

\* C29: for 2 to 6 variables the cells of the grid generate returns and
\* the indices 0..2^n - 1 correspond one to one under
\* getMintermFromPosition(row, col, n, map), and the cell of index m holds
\* 'X' if m is a don't-care, 1 if m is a minterm and not a don't-care, and
\* 0 otherwise.
C29_GridRoundTrip ==
    Generated =>
        LET n     == request.numVars
            cells == CellsIn(kmap)
        IN  /\ Cardinality(cells) = Pow2(n)
            /\ {PositionIndex(n, cell) : cell \in cells} = 0..(Pow2(n) - 1)
            /\ \A cell \in cells :
                  GridAt(kmap, cell) =
                     IF Includes(request.dontCares, PositionIndex(n, cell)) THEN "X"
                     ELSE IF Includes(request.minterms, PositionIndex(n, cell)) THEN "1"
                     ELSE "0"

\* five variables, minterms 0 and 20, don't-care 0: index 20 (10100) is the
\* 1 at row 1, column 0 of the second map, and index 0 is an 'X'
C29_Witness ==
    /\ Generated
    /\ request.numVars = 5
    /\ request.minterms = <<0, 20>>
    /\ request.dontCares = <<0>>
    /\ GridAt(kmap, [map |-> 1, row |-> 1, col |-> 0]) = "1"
    /\ getMintermFromPosition(1, 0, 5, 1) = 20
    /\ GridAt(kmap, [map |-> 0, row |-> 0, col |-> 0]) = "X"
    /\ getMintermFromPosition(0, 0, 5, 0) = 0


---------------------------------------------------------------------------
(* What the coverage solver selects *)

\* C30: every implicant of the solution of findEssentialPrimeImplicants,
\* while it is built and when it is returned, covers at least one required
\* minterm (so none covers don't-care indices only), is one of the supplied
\* prime implicants, and stands in the solution once.
C30_SelectedCoverRequiredOnce ==
    /\ pc \in {"greedy", "done"} =>
          /\ \A k \in 1..Len(Solution) :
                /\ Range(Solution[k].minterms) \cap Required # {}
                /\ \E i \in 1..Len(primeImplicants) : primeImplicants[i] = Solution[k]
          /\ \A j, k \in 1..Len(Solution) :
                j # k => Solution[j].binary # Solution[k].binary
    /\ (pc = "done" /\ "essentialPrimeImplicants" \in DOMAIN result) =>
          result.essentialPrimeImplicants = Solution

\* two variables, minterm 0 and don't-care 3: the prime implicant 11 covers
\* the don't-care only, and the solution is 00 alone
C30_Witness ==
    /\ pc = "done"
    /\ kmap.numVars = 2
    /\ kmap.minterms = <<0>>
    /\ kmap.dontCares = <<3>>
    /\ \E i \in 1..Len(primeImplicants) : primeImplicants[i].minterms = <<3>>
    /\ Len(Solution) = 1
    /\ Solution[1].binary = <<"0", "0">>

===========================================================================
